---- MODULE Spec2Model ----
(***************************************************************************)
(* dbranch: PostgreSQL branching on a loop-mounted Btrfs image.            *)
(*                                                                         *)
(* Every CLI verb is one run of the binary: main() loads the persisted     *)
(* config and metadata (src/main.rs:43-61), hands them to                  *)
(* CliHandler::handle_command and exits.  A verb is therefore one action   *)
(* over the persisted documents and the host resources (image file, loop   *)
(* devices, mount, filesystem content, containers).  The proxy (`start`)   *)
(* is a long running process with an accept loop and a reload task.        *)
(*                                                                         *)
(* External tools are modelled by their effect:                            *)
(*  - losetup -f --show attaches one more loop device to the image and     *)
(*    fails when the image is missing or no loop device is free;           *)
(*  - mkfs.btrfs -f produces an empty filesystem and refuses an image that *)
(*    is currently mounted;                                                *)
(*  - umount -l reports "not mounted" for an existing, unmounted mount     *)
(*    point and another error when the mount point directory is missing;   *)
(*  - btrfs subvolume snapshot SRC DST creates DST, or DST/main when DST   *)
(*    already is a directory;                                              *)
(*  - docker run fails when the name is taken; docker stop / rm fail on a  *)
(*    missing container.                                                   *)
(* How the docker wrapper reports a failed docker command (an Err from     *)
(* execute(), or an Ok output that is not a success) is not decided by     *)
(* this repository: docker_shape fixes one of the two for a behaviour.     *)
(***************************************************************************)
EXTENDS Integers, Sequences, FiniteSets, TLC

\* ---------------------------------------------------------------- bounds
ProjNames == {"p", "q"}
BranchNames == {"main", "b"}
Names == ProjNames \cup BranchNames
WindowSize == 2
MaxLoops == 3
MaxConns == 2
MaxEnvSet == 1
MaxBlocks == 3
\* The extent map reader asks for ExtentCount extents a call (32 in the
\* code), files have up to MaxExtents extents of one or two units, and
\* offsets are kept in OffsetBits bits (64 in the code).
ExtentCount == 2
MaxExtents == 3
MaxSize == 4
OffsetBits == 4

\* ------------------------------------------------------------- constants
port_min == 7000
port_max == port_min + WindowSize - 1
Ports == port_min..port_max

None == "none"
NoPort == 0
NoProject == [name |-> None, port |-> NoPort, active_branch |-> None, branches |-> <<>>]
NoKey == <<"-", "-">>
NoProbe == [done |-> FALSE, port_range |-> <<port_min, port_max>>, port |-> NoPort]
Keys == ProjNames \X Names
DockerShapes == {"err", "soft"}
MountFail == {"none", "attach", "format", "mount", "subvol"}
SnapFail == {"none", "snapshot"}
DetachAll == {"err", "all"}
\* The two invocations of `create` that run side by side.
Procs == {1, 2}
NoProc == [pc |-> "idle", name |-> None, project |-> None, port |-> NoPort,
           doc |-> NoProject, res |-> None, why |-> None]

\* ----------------------------------------------------------------- state
VARIABLES
    config_file,   \* dbranch.config.json: [projects, default_project]
    metadata,      \* <config>/<project>/metadata.json: NoProject or a Project
    img,           \* <config>/<project>/btrfs.img exists
    loops,         \* loop devices attached to the project's image
    orphans,       \* loop devices still attached to a removed image
    mounted,       \* a filesystem is mounted at <mount_point>/<project>
    mdir,          \* the directory <mount_point>/<project> exists
    fs,            \* content of the filesystem held by the image
    ctr,           \* container runtime: <<project, name>> -> [st, port]
    docker_shape,  \* how the docker wrapper reports a failed command
    last,          \* the verb that ran last, its argument and its result
    proxy_pc,      \* "off", "running" or "dead" (a panic in the proxy)
    snap_config,   \* Arc<RwLock<Config>> of the proxy
    snap_project,  \* Arc<RwLock<Option<Project>>> of the proxy
    reload,        \* sync_config: "idle", or "queued" for the write lock
    acc,           \* run_server: the accept being resolved, holding a read guard
    conns,         \* forwarders: connection id -> [st, target, c2s, s2c]
    nconn,         \* connections accepted so far
    probe,         \* a call of get_valid_port: its port_range and its result
    procs,         \* two `create` invocations running side by side
    cfgio,         \* the config document, the environment and the loaded Config
    copy,          \* one call of copy_ref: the two files and its result
    tree,          \* one call of snapshot: the two trees and its result
    fmap,          \* one call of check_file: the file and what was returned
    acct           \* one call of get_folder_size: the tree and its result

host_vars == <<img, loops, orphans, mounted, mdir, fs, ctr>>
disk_vars == <<config_file, metadata>>
proxy_vars == <<proxy_pc, snap_config, snap_project, reload, acc, conns, nconn>>
vars == <<config_file, metadata, img, loops, orphans, mounted, mdir, fs, ctr,
          docker_shape, last, proxy_pc, snap_config, snap_project, reload,
          acc, conns, nconn, probe, procs, cfgio, copy, tree,
          fmap, acct>>
\* The state of the parts that are exercised on their own.
unit_vars == <<procs, cfgio, copy, tree, fmap, acct>>

\* FileConfigInfo parsed from "{}": every field absent (an absent port is
\* NoPort, an absent project list loads like an empty one).
EmptyDoc ==
    [api_port |-> NoPort, proxy_port |-> NoPort, approach |-> None,
     port_min |-> NoPort, port_max |-> NoPort, mount_point |-> None,
     default_project |-> None, projects |-> <<>>]
\* The environment with no DBRANCH_* variable set.
NoEnv ==
    [approach |-> None, api_port |-> None, proxy_port |-> None, port_start |-> None,
     port_end |-> None, mount_point |-> None, default_project |-> None]
NoCfgIo == [pc |-> "off", env |-> NoEnv, exists |-> FALSE, file |-> EmptyDoc,
            read |-> EmptyDoc, config |-> EmptyDoc, first |-> EmptyDoc]

NoCopy == [pc |-> "off", cow |-> FALSE, src |-> <<>>, dest |-> <<>>, res |-> None]
\* The paths of a tree, relative to its root, and a tree with no entry.
TreePaths == {<<"d">>, <<"f">>, <<"d", "e">>, <<"d", "g">>, <<"d", "e", "h">>}
Absent == [kind |-> "none", file |-> <<>>]
EmptyTree == [p \in TreePaths |-> Absent]
NoTree == [pc |-> "off", src |-> EmptyTree, dst |-> EmptyTree, res |-> None]
\* A file as the extent map reader sees it: the length metadata() gives,
\* fe_logical, fe_length and the flags of each of its extents, and whether
\* its FIEMAP ioctl fails.
NoFile == [size |-> 0, extents |-> <<>>, fail |-> FALSE]
NoFmap == [pc |-> "off", f |-> NoFile, build |-> "debug", res |-> None,
           all_extents |-> <<>>, requests |-> <<>>]
NoAcct == [pc |-> "off", t |-> [p \in TreePaths |-> [kind |-> "none", f |-> NoFile]],
           build |-> "debug", bad |-> <<>>, res |-> None, logical_size |-> 0,
           shared_size |-> 0, files |-> <<>>]

\* None of the parts that are exercised on their own has started.
UnitIdle ==
    /\ procs = [i \in Procs |-> NoProc]
    /\ cfgio = NoCfgIo
    /\ copy = NoCopy
    /\ tree = NoTree
    /\ fmap = NoFmap
    /\ acct = NoAcct

\* --------------------------------------------------------------- helpers
Range(s) == {s[i] : i \in DOMAIN s}

BranchNamesOf(project) == {project.branches[i].name : i \in DOMAIN project.branches}

RECURSIVE Retain(_, _)
Retain(s, x) ==
    IF s = <<>> THEN <<>>
    ELSE IF Head(s) = x THEN Retain(Tail(s), x)
    ELSE <<Head(s)>> \o Retain(Tail(s), x)

EmptyFs == [vols |-> {}, nested |-> {}, dirs |-> {}]
NoContainer == [st |-> "absent", port |-> 0]

\* The host resources as one value, threaded through the operators below.
Host == [img |-> img, loops |-> loops, orphans |-> orphans, mounted |-> mounted,
         mdir |-> mdir, fs |-> fs, ctr |-> ctr]

\* fs::remove_file / remove_dir_all of the image: the loop devices attached
\* to it stay attached and are listed with "<path> (deleted)" from then on.
remove_img(w, p) ==
    [w EXCEPT !.img[p] = FALSE, !.orphans[p] = @ + w.loops[p], !.loops[p] = 0]

RECURSIVE SumLoops(_, _)
SumLoops(l, S) ==
    IF S = {} THEN 0
    ELSE LET x == CHOOSE y \in S : TRUE IN l[x] + SumLoops(l, S \ {x})

\* ------------------------------------------------------- port allocation
\* TcpListener::bind(("127.0.0.1", port)) succeeds iff no running
\* container publishes the port.
Bindable(c, port) == \A k \in Keys : ~(c[k].st = "running" /\ c[k].port = port)

\* A scan that returns the first port of the window without probing it;
\* C18 separates it from the loop of get_valid_port.
scan_ports_unprobed(c, port, max) ==
    IF port > max THEN NoPort ELSE port

\* The loop `for port in port_range.0..=port_range.1` from `port` on.
RECURSIVE scan_ports(_, _, _)
scan_ports(c, port, max) ==
    IF port > max THEN NoPort
    ELSE IF Bindable(c, port) THEN port
    ELSE scan_ports(c, port + 1, max)

\* Config::get_valid_port of a config whose port_range is the given pair.
get_valid_port_in(c, port_range) == scan_ports(c, port_range[1], port_range[2])

\* Config::get_valid_port with the configured window.
get_valid_port(c) == get_valid_port_in(c, <<port_min, port_max>>)

\* --------------------------------------------------- storage provisioner
\* BtrfsOperator::reserve_space: create the project directory and the
\* sparse image (an existing image is reopened and kept).
reserve_space(w, p) == [w EXCEPT !.img[p] = TRUE]

\* BtrfsOperator::mount_disk.  fp names the external command that fails in
\* this call ("none": only the failures the state forces).  Nothing that
\* was done before the failing command is undone.
mount_disk(w, p, fp) ==
    IF fp = "attach" \/ ~w.img[p] \/ SumLoops(w.loops, ProjNames) + SumLoops(w.orphans, ProjNames) >= MaxLoops
    THEN [ok |-> FALSE, w |-> w]
    ELSE
    LET w1 == [w EXCEPT !.loops[p] = @ + 1] IN
    IF fp = "format" \/ w1.mounted[p]
    THEN [ok |-> FALSE, w |-> w1]
    ELSE
    LET w2 == [w1 EXCEPT !.fs[p] = EmptyFs, !.mdir[p] = TRUE] IN
    IF fp = "mount"
    THEN [ok |-> FALSE, w |-> w2]
    ELSE
    LET w3 == [w2 EXCEPT !.mounted[p] = TRUE] IN
    IF fp = "subvol"
    THEN [ok |-> FALSE, w |-> w3]
    ELSE [ok |-> TRUE, w |-> [w3 EXCEPT !.fs[p].vols = {"main"}]]

\* find_device_by_path: the first line of the losetup listing whose
\* BACK-FILE ends with the image path; the line of a removed image ends
\* with "(deleted)" and is not matched by the line pattern.
find_device_by_path(w, p) == w.loops[p] > 0

\* BtrfsOperator::unmount_disk.  da is what `losetup -d --all` does when no
\* device was found: it fails, or it detaches every idle loop device.
unmount_disk(w, p, da) ==
    IF ~w.mounted[p] /\ ~w.mdir[p]
    THEN [ok |-> FALSE, w |-> w]
    ELSE
    LET w1 == [w EXCEPT !.mounted[p] = FALSE] IN
    IF find_device_by_path(w1, p)
    THEN [ok |-> TRUE, w |-> [w1 EXCEPT !.loops[p] = @ - 1]]
    ELSE IF da = "err"
    THEN [ok |-> FALSE, w |-> w1]
    ELSE [ok |-> TRUE,
          w |-> [w1 EXCEPT !.loops =
                    [x \in ProjNames |-> IF w1.mounted[x] THEN w1.loops[x] ELSE 0],
                           !.orphans = [x \in ProjNames |-> 0]]]

\* BtrfsOperator::cleanup_disk: unmount (errors ignored), then remove the
\* image file when it exists.
cleanup_disk(w, p, da) ==
    LET u == unmount_disk(w, p, da) IN
    [ok |-> TRUE, w |-> IF u.w.img[p] THEN remove_img(u.w, p) ELSE u.w]

\* BtrfsOperator::subvolume_exists: `btrfs subvolume show` succeeds.
subvolume_exists(w, p, n) == w.mounted[p] /\ n \in w.fs[p].vols

\* BtrfsOperator::create_snapshot: snapshot of <mount>/main at <mount>/<n>.
create_snapshot(w, p, n, fp) ==
    IF ~subvolume_exists(w, p, "main") \/ fp = "snapshot"
    THEN [ok |-> FALSE, w |-> w]
    ELSE IF n \notin (w.fs[p].vols \cup w.fs[p].dirs)
    THEN [ok |-> TRUE, w |-> [w EXCEPT !.fs[p].vols = @ \cup {n}]]
    ELSE IF n \notin w.fs[p].nested
    THEN [ok |-> TRUE, w |-> [w EXCEPT !.fs[p].nested = @ \cup {n}]]
    ELSE [ok |-> FALSE, w |-> w]

\* ------------------------------------------------ container orchestrator
\* The container name format!("{}_{}", project, name).
container_name(p, n) == <<p, n>>

\* The reply of the docker wrapper to a command that failed.
Failed == IF docker_shape = "err" THEN "err" ELSE "soft"

\* A runtime that starts a container whatever its name; C25 separates it
\* from docker_run.
docker_run_any_name(c, k, port, bad) ==
    IF bad = k THEN [reply |-> "err", c |-> c]
    ELSE IF ~Bindable(c, port) /\ c[k].st = "absent"
    THEN [reply |-> Failed, c |-> [c EXCEPT ![k] = [st |-> "created", port |-> port]]]
    ELSE [reply |-> "ok", c |-> [c EXCEPT ![k] = [st |-> "running", port |-> port]]]

\* docker run --name k -p port:5432: the name must be free; a container
\* whose port cannot be published stays behind in state "created".
docker_run(c, k, port, bad) ==
    IF bad = k THEN [reply |-> "err", c |-> c]
    ELSE IF c[k].st # "absent" THEN [reply |-> Failed, c |-> c]
    ELSE IF ~Bindable(c, port)
    THEN [reply |-> Failed, c |-> [c EXCEPT ![k] = [st |-> "created", port |-> port]]]
    ELSE [reply |-> "ok", c |-> [c EXCEPT ![k] = [st |-> "running", port |-> port]]]

docker_stop(c, k, bad) ==
    IF bad = k THEN [reply |-> "err", c |-> c]
    ELSE IF c[k].st = "absent" THEN [reply |-> Failed, c |-> c]
    ELSE IF c[k].st = "running"
    THEN [reply |-> "ok", c |-> [c EXCEPT ![k].st = "stopped"]]
    ELSE [reply |-> "ok", c |-> c]

docker_rm(c, k, bad) ==
    IF bad = k THEN [reply |-> "err", c |-> c]
    ELSE IF c[k].st \in {"absent", "running"} THEN [reply |-> Failed, c |-> c]
    ELSE [reply |-> "ok", c |-> [c EXCEPT ![k] = NoContainer]]

\* CliHandler::create_postgres: the database name of a container is the
\* branch name, and the project's name when no branch is given (init).
db_name(name, project_name) == IF name = None THEN project_name ELSE name

\* The entry of the project's filesystem under which create_database puts
\* the bind-mounted directory: <mount>/<project>/<name>/data.
data_dir(p, name) == name

\* PostgresOperator::create_database: create <mount>/<project>/<name>/data
\* on the host, then docker run; execute().await.unwrap() panics on Err,
\* and an Ok output is not inspected.
create_database(w, p, name, port, bad) ==
    LET w1 == IF w.mounted[p] /\ name \notin (w.fs[p].vols \cup w.fs[p].dirs)
              THEN [w EXCEPT !.fs[p].dirs = @ \cup {name}]
              ELSE w
        r == docker_run(w1.ctr, container_name(p, name), port, bad)
    IN  [res |-> IF r.reply = "err" THEN "panic" ELSE "Ok",
         w |-> [w1 EXCEPT !.ctr = r.c]]

\* PostgresOperator::delete_database: stop, then rm; an Err of either is
\* returned with `?`, an unsuccessful output is only logged.
delete_database(w, p, name, bad) ==
    LET s == docker_stop(w.ctr, container_name(p, name), bad) IN
    IF s.reply = "err" THEN [res |-> "Docker", w |-> w]
    ELSE
    LET r == docker_rm(s.c, container_name(p, name), bad) IN
    IF r.reply = "err" THEN [res |-> "Docker", w |-> [w EXCEPT !.ctr = s.c]]
    ELSE [res |-> "Ok", w |-> [w EXCEPT !.ctr = r.c]]

\* PostgresOperator::stop_database.
stop_database(w, p, name, bad) ==
    LET s == docker_stop(w.ctr, container_name(p, name), bad) IN
    IF s.reply = "err" THEN [res |-> "Docker", w |-> w]
    ELSE [res |-> "Ok", w |-> [w EXCEPT !.ctr = s.c]]

\* ------------------------------------------------ config & metadata store
\* Config::get_project_info(name) on the documents d = [cfg, meta].
get_project_info(d, name) ==
    LET n == IF name = None THEN d.cfg.default_project ELSE name IN
    IF n = None THEN NoProject ELSE d.meta[n]

\* Config::get_projects: the listed projects whose metadata can be read.
RECURSIVE get_projects_from(_, _)
get_projects_from(d, names) ==
    IF names = <<>> THEN <<>>
    ELSE LET x == get_project_info(d, Head(names)) IN
         (IF x = NoProject THEN <<>> ELSE <<x>>) \o get_projects_from(d, Tail(names))

get_projects(d) == get_projects_from(d, d.cfg.projects)

\* Config::set_default_project (the check of the project list is made by
\* the caller of this operator).
set_default_project(d, name) == [d EXCEPT !.cfg.default_project = name]

\* Config::add_project: create_project writes metadata.json, the name is
\* pushed to the project list and the config is saved.
add_project(d, project) ==
    [d EXCEPT !.meta[project.name] = project,
              !.cfg.projects = Append(@, project.name)]

\* Config::remove_project: drop the name, remove the project directory
\* (metadata.json and the image live in it), save the config.
remove_project(d, name) ==
    [d EXCEPT !.cfg.projects = Retain(@, name), !.meta[name] = NoProject]

\* Config::create_branch: read metadata.json, push the branch, save.
create_branch(d, project_name, branch_name, valid_port) ==
    [d EXCEPT !.meta[project_name].branches =
                  Append(@, [name |-> branch_name, port |-> valid_port])]

\* A store that records the name `main` literally as the active branch;
\* C12 separates it from set_active_branch.
set_active_branch_literal(d, project_name, branch_name) ==
    IF branch_name \in BranchNamesOf(d.meta[project_name]) \/ branch_name = "main"
    THEN [ok |-> TRUE, d |-> [d EXCEPT !.meta[project_name].active_branch = branch_name]]
    ELSE [ok |-> FALSE, d |-> d]

\* Config::set_active_branch: `main` is stored as an absent active branch.
set_active_branch(d, project_name, branch_name) ==
    IF branch_name \in BranchNamesOf(d.meta[project_name]) \/ branch_name = "main"
    THEN [ok |-> TRUE,
          d |-> [d EXCEPT !.meta[project_name].active_branch =
                     IF branch_name = "main" THEN None ELSE branch_name]]
    ELSE [ok |-> FALSE, d |-> d]

\* The persisted documents as one value.
Disk == [cfg |-> config_file, meta |-> metadata]

\* --------------------------------------------------------- the CLI verbs
\* main(): the state a verb starts from (src/main.rs:43-61).
active_project == get_project_info(Disk, Disk.cfg.default_project)
projects == get_projects(Disk)

\* Every container of the listed projects runs on its recorded port.
RECURSIVE AllRunning(_, _)
AllRunning(c, projs) ==
    \/ projs = <<>>
    \/ LET x == Head(projs) IN
       /\ c[container_name(x.name, x.name)] = [st |-> "running", port |-> x.port]
       /\ \A i \in DOMAIN x.branches :
              c[container_name(x.name, x.branches[i].name)] =
                  [st |-> "running", port |-> x.branches[i].port]
       /\ AllRunning(c, Tail(projs))

\* The state a verb leaves behind.
Finish(cmd, arg, res, w, d) ==
    /\ last' = [cmd |-> cmd, arg |-> arg, res |-> res,
                allrun |-> cmd = "stop" /\ projects # <<>> /\ AllRunning(ctr, projects)]
    /\ config_file' = d.cfg
    /\ metadata' = d.meta
    /\ img' = w.img
    /\ loops' = w.loops
    /\ orphans' = w.orphans
    /\ mounted' = w.mounted
    /\ mdir' = w.mdir
    /\ fs' = w.fs
    /\ ctr' = w.ctr
    /\ UNCHANGED <<docker_shape, probe, unit_vars>>
    /\ UNCHANGED proxy_vars

\* An `init` that writes the project's documents before it starts the
\* main container; C20 separates it from Commands::Init.
Commands_Init_persist_first(name, fp, bad, da) ==
    LET port == get_valid_port(ctr) IN
    IF name \in Range(config_file.projects)
    THEN Finish("init", name, "ProjectAlreadyExists", Host, Disk)
    ELSE IF port = NoPort
    THEN Finish("init", name, "NoPortAvailable", Host, Disk)
    ELSE
    LET project == [name |-> name, port |-> port, active_branch |-> None,
                    branches |-> <<>>]
        w1 == reserve_space(Host, name)
        w2 == unmount_disk(w1, name, da).w
        m  == mount_disk(w2, name, fp)
        c  == create_database(m.w, name, name, port, bad)
        d1 == add_project(Disk, project)
    IN  IF ~m.ok THEN Finish("init", name, "panic", m.w, Disk)
        ELSE IF c.res = "panic" THEN Finish("init", name, "panic", c.w, d1)
        ELSE Finish("init", name, "Ok", c.w, d1)

\* Commands::Init.
Commands_Init(name, fp, bad, da) ==
    LET port == get_valid_port(ctr) IN
    IF name \in Range(config_file.projects)
    THEN Finish("init", name, "ProjectAlreadyExists", Host, Disk)
    ELSE IF port = NoPort
    THEN Finish("init", name, "NoPortAvailable", Host, Disk)
    ELSE
    LET project == [name |-> name, port |-> port, active_branch |-> None,
                    branches |-> <<>>]
        w1 == reserve_space(Host, name)
        w2 == unmount_disk(w1, name, da).w
        m  == mount_disk(w2, name, fp)
        c  == create_database(m.w, name, name, port, bad)
        d1 == add_project(Disk, project)
        d2 == IF d1.cfg.default_project = None
              THEN set_default_project(d1, name) ELSE d1
    IN  IF ~m.ok THEN Finish("init", name, "panic", m.w, Disk)
        ELSE IF c.res = "panic" THEN Finish("init", name, "panic", c.w, Disk)
        ELSE Finish("init", name, "Ok", c.w, d2)

\* A `create` that does not look at the branches already recorded; C31
\* separates it from Commands::Create.
Commands_Create_unchecked(name, fp, bad) ==
    IF name \in Range(config_file.projects)
    THEN Finish("create", name, "ProjectAlreadyExists", Host, Disk)
    ELSE IF active_project = NoProject
    THEN Finish("create", name, "panic", Host, Disk)
    ELSE
    LET pn == active_project.name
        s == create_snapshot(Host, pn, name, fp)
        port == get_valid_port(s.w.ctr)
        c == create_database(s.w, pn, name, port, bad)
    IN  IF ~s.ok THEN Finish("create", name, "panic", s.w, Disk)
        ELSE IF port = NoPort THEN Finish("create", name, "panic", s.w, Disk)
        ELSE IF c.res = "panic" THEN Finish("create", name, "panic", c.w, Disk)
        ELSE Finish("create", name, "Ok", c.w, create_branch(Disk, pn, name, port))

\* A `create` that records the branch before it looks at the outcome of
\* the snapshot; C23 separates it from Commands::Create.
Commands_Create_record_first(name, fp, bad) ==
    IF name \in Range(config_file.projects)
    THEN Finish("create", name, "ProjectAlreadyExists", Host, Disk)
    ELSE IF active_project # NoProject /\ name \in BranchNamesOf(active_project)
    THEN Finish("create", name, "BranchAlreadyExists", Host, Disk)
    ELSE IF active_project = NoProject
    THEN Finish("create", name, "panic", Host, Disk)
    ELSE
    LET pn == active_project.name
        s == create_snapshot(Host, pn, name, fp)
        port == get_valid_port(s.w.ctr)
        c == create_database(s.w, pn, name, port, bad)
        d1 == create_branch(Disk, pn, name, port)
    IN  IF ~s.ok THEN Finish("create", name, "panic", s.w, d1)
        ELSE IF port = NoPort THEN Finish("create", name, "panic", s.w, Disk)
        ELSE IF c.res = "panic" THEN Finish("create", name, "panic", c.w, Disk)
        ELSE Finish("create", name, "Ok", c.w, d1)

\* Commands::Create.
Commands_Create(name, fp, bad) ==
    IF name \in Range(config_file.projects)
    THEN Finish("create", name, "ProjectAlreadyExists", Host, Disk)
    ELSE IF active_project # NoProject /\ name \in BranchNamesOf(active_project)
    THEN Finish("create", name, "BranchAlreadyExists", Host, Disk)
    ELSE IF active_project = NoProject
    THEN Finish("create", name, "panic", Host, Disk)
    ELSE
    LET pn == active_project.name
        s == create_snapshot(Host, pn, name, fp)
        port == get_valid_port(s.w.ctr)
        c == create_database(s.w, pn, name, port, bad)
    IN  IF ~s.ok THEN Finish("create", name, "panic", s.w, Disk)
        ELSE IF port = NoPort THEN Finish("create", name, "panic", s.w, Disk)
        ELSE IF c.res = "panic" THEN Finish("create", name, "panic", c.w, Disk)
        ELSE Finish("create", name, "Ok", c.w, create_branch(Disk, pn, name, port))

\* Commands::SetDefault.
Commands_SetDefault(name) ==
    IF name \notin Range(config_file.projects)
    THEN Finish("set-default", name, "panic", Host, Disk)
    ELSE Finish("set-default", name, "Ok", Host, set_default_project(Disk, name))

\* Commands::Delete.
Commands_Delete(id) == Finish("delete", id, "NotImplemented", Host, Disk)

\* Commands::DeleteProject, lines 317-323: the containers of the branches.
RECURSIVE delete_branches(_, _, _, _)
delete_branches(w, project, i, bad) ==
    IF i > Len(project.branches) THEN [res |-> "Ok", w |-> w]
    ELSE LET r == delete_database(w, project.name, project.branches[i].name, bad) IN
         IF r.res # "Ok" THEN r ELSE delete_branches(r.w, project, i + 1, bad)

\* Commands::DeleteProject.
Commands_DeleteProject(name, bad, da) ==
    LET project == get_project_info(Disk, name) IN
    IF name \notin Range(config_file.projects) \/ project = NoProject
    THEN Finish("delete-project", name, "ProjectNotFound", Host, Disk)
    ELSE
    LET b == delete_branches(Host, project, 1, bad)
        m == delete_database(b.w, name, name, bad)
        u == unmount_disk(m.w, name, da)
        c == cleanup_disk(u.w, name, da)
        w5 == IF c.w.img[name] THEN remove_img(c.w, name) ELSE c.w
        d1 == remove_project(Disk, name)
        d2 == IF d1.cfg.default_project = name
              THEN [d1 EXCEPT !.cfg.default_project = None] ELSE d1
    IN  IF b.res # "Ok" THEN Finish("delete-project", name, b.res, b.w, Disk)
        ELSE IF m.res # "Ok" THEN Finish("delete-project", name, m.res, m.w, Disk)
        ELSE Finish("delete-project", name, "Ok", w5, d2)

\* A `use` handler without the existence check of lines 380-389: the
\* store's own check then fails the unwrap; C11 separates the two.
Commands_Use_unchecked(name) ==
    LET project == get_project_info(Disk, None) IN
    IF project = NoProject
    THEN Finish("use", name, "DefaultProjectNotFound", Host, Disk)
    ELSE LET r == set_active_branch(Disk, project.name, name) IN
         Finish("use", name, IF r.ok THEN "Ok" ELSE "panic", Host, r.d)

\* Commands::Use.
Commands_Use(name) ==
    LET project == get_project_info(Disk, None) IN
    IF project = NoProject
    THEN Finish("use", name, "DefaultProjectNotFound", Host, Disk)
    ELSE IF name \notin BranchNamesOf(project) /\ name # "main"
    THEN Finish("use", name, "BranchNotFound", Host, Disk)
    ELSE LET r == set_active_branch(Disk, project.name, name) IN
         Finish("use", name, IF r.ok THEN "Ok" ELSE "panic", Host, r.d)

\* Commands::Stop / Commands::Restart: stop the branch containers,
\* every result dropped with `let _ =`.
RECURSIVE stop_branches(_, _, _, _)
stop_branches(w, project, i, bad) ==
    IF i > Len(project.branches) THEN w
    ELSE stop_branches(stop_database(w, project.name, project.branches[i].name, bad).w,
                       project, i + 1, bad)

\* Commands::Stop, lines 427-449 (and Commands::Restart, 500-522).
RECURSIVE stop_projects(_, _, _, _)
stop_projects(w, projs, bad, da) ==
    IF projs = <<>> THEN w
    ELSE LET x == Head(projs)
             w1 == stop_database(w, x.name, x.name, bad).w
             w2 == stop_branches(w1, x, 1, bad)
             w3 == unmount_disk(w2, x.name, da).w
         IN  stop_projects(w3, Tail(projs), bad, da)

\* Commands::Resume / Commands::Restart: start the branch containers; the
\* unwrap inside create_database ends the process.
RECURSIVE resume_branches(_, _, _, _)
resume_branches(w, project, i, bad) ==
    IF i > Len(project.branches) THEN [res |-> "Ok", w |-> w]
    ELSE LET c == create_database(w, project.name, project.branches[i].name,
                                  project.branches[i].port, bad) IN
         IF c.res = "panic" THEN c ELSE resume_branches(c.w, project, i + 1, bad)

\* Commands::Resume, lines 457-491 (and Commands::Restart, 525-559).  The
\* mount of project fpP fails at fp; a project that cannot be mounted is
\* skipped.
RECURSIVE resume_projects(_, _, _, _, _)
resume_projects(w, projs, fpP, fp, bad) ==
    IF projs = <<>> THEN [res |-> "Ok", w |-> w]
    ELSE LET x == Head(projs)
             m == mount_disk(w, x.name, IF x.name = fpP THEN fp ELSE "none")
             c == create_database(m.w, x.name, x.name, x.port, bad)
             b == resume_branches(c.w, x, 1, bad)
         IN  IF ~m.ok THEN resume_projects(m.w, Tail(projs), fpP, fp, bad)
             ELSE IF c.res = "panic" THEN c
             ELSE IF b.res = "panic" THEN b
             ELSE resume_projects(b.w, Tail(projs), fpP, fp, bad)

Commands_Stop(bad, da) ==
    Finish("stop", None, "Ok", stop_projects(Host, projects, bad, da), Disk)

Commands_Resume(fpP, fp, bad) ==
    LET r == resume_projects(Host, projects, fpP, fp, bad) IN
    Finish("resume", None, r.res, r.w, Disk)

Commands_Restart(fpP, fp, bad, da) ==
    LET r == resume_projects(stop_projects(Host, projects, bad, da), projects,
                             fpP, fp, bad) IN
    Finish("restart", None, r.res, r.w, Disk)

\* -------------------------------------------------------------- the proxy
NoAccept == [busy |-> FALSE, branch |-> None]
NoConn == [st |-> "free", target |-> NoPort, c2s |-> "copy", s2c |-> "copy"]

\* Commands::Start: main() loads the documents, run_server refuses to start
\* without a project and then binds the proxy port.
Commands_Start ==
    /\ proxy_pc = "off"
    /\ IF active_project = NoProject
       THEN /\ last' = [cmd |-> "start", arg |-> None, res |-> "Internal", allrun |-> FALSE]
            /\ UNCHANGED proxy_vars
       ELSE /\ last' = [cmd |-> "start", arg |-> None, res |-> "Ok", allrun |-> FALSE]
            /\ proxy_pc' = "running"
            /\ snap_config' = config_file
            /\ snap_project' = active_project
            /\ UNCHANGED <<reload, acc, conns, nconn>>
    /\ UNCHANGED <<disk_vars, host_vars, docker_shape, probe, unit_vars>>

\* What one iteration of sync_config finds on disk: both documents
\* readable, a config document that does not parse, or a metadata.json that
\* cannot be read or parsed (File::create in save_project_changes truncates
\* the file before it is rewritten).
ReadFail == {"none", "config", "metadata"}

\* A reload that hands out a document cut short, its branch list missing;
\* C14 separates it from sync_config.
sync_config_partial(rd) ==
    /\ proxy_pc = "running"
    /\ reload = "idle"
    /\ rd = "none"
    /\ ~acc.busy
    /\ snap_config' = config_file
    /\ snap_project' =
           LET new == get_project_info(Disk, config_file.default_project) IN
           IF new = NoProject THEN new ELSE [new EXCEPT !.branches = <<>>]
    /\ UNCHANGED <<proxy_pc, reload, acc, conns, nconn, disk_vars, host_vars,
                   docker_shape, probe, unit_vars, last>>

\* sync_config, one iteration: Config::from_file; on Err nothing is
\* replaced.  On Ok the config is replaced and the project becomes
\* get_project_info(default_project), None when metadata.json cannot be
\* read or parsed.  The write lock of the project is granted at once unless
\* run_server holds a read guard; then the writer queues.
sync_config(rd) ==
    /\ proxy_pc = "running"
    /\ reload = "idle"
    /\ IF rd = "config"
       THEN UNCHANGED <<snap_config, snap_project, reload>>
       ELSE /\ snap_config' = config_file
            /\ IF acc.busy
               THEN reload' = "queued" /\ UNCHANGED snap_project
               ELSE /\ snap_project' =
                          IF rd = "metadata" THEN NoProject
                          ELSE get_project_info(Disk, config_file.default_project)
                    /\ UNCHANGED reload
    /\ UNCHANGED <<proxy_pc, acc, conns, nconn, disk_vars, host_vars, docker_shape, probe, unit_vars, last>>

\* run_server, line 131: a client is accepted and the active branch is read
\* under a read guard that lives until the end of the match.
accept_read ==
    /\ proxy_pc = "running"
    /\ ~acc.busy
    /\ nconn < MaxConns
    /\ IF snap_project = NoProject
       THEN proxy_pc' = "dead" /\ UNCHANGED acc
       ELSE /\ acc' = [busy |-> TRUE, branch |-> snap_project.active_branch]
            /\ UNCHANGED proxy_pc
    /\ UNCHANGED <<snap_config, snap_project, reload, conns, nconn,
                   disk_vars, host_vars, docker_shape, probe, unit_vars, last>>

\* A proxy that ignores the active branch and always forwards to the
\* project's own port; C1 separates it from run_server's selection.
target_port_main(project, branch) ==
    project.port

\* run_server, lines 132-155: the port of the branch read by accept_read.
target_port(project, branch) ==
    IF branch = None THEN project.port
    ELSE IF branch \in BranchNamesOf(project)
    THEN LET i == CHOOSE j \in DOMAIN project.branches :
                      /\ project.branches[j].name = branch
                      /\ \A m \in 1..(j - 1) : project.branches[m].name # branch
         IN  project.branches[i].port
    ELSE NoPort

\* run_server, lines 132-165: the second read of the snapshot (it waits
\* behind a queued writer), then the forwarder is spawned with the target;
\* handle_connection connects to the target first.
accept_resolve ==
    /\ proxy_pc = "running"
    /\ acc.busy
    /\ reload = "idle"
    /\ LET port == target_port(snap_project, acc.branch) IN
       IF port = NoPort
       THEN proxy_pc' = "dead" /\ UNCHANGED <<conns, nconn>>
       ELSE /\ nconn' = nconn + 1
            /\ conns' = [conns EXCEPT ![nconn + 1] =
                            [st |-> IF Bindable(ctr, port) THEN "failed" ELSE "open",
                             target |-> port, c2s |-> "copy", s2c |-> "copy"]]
            /\ UNCHANGED proxy_pc
    /\ acc' = NoAccept
    /\ UNCHANGED <<snap_config, snap_project, reload, disk_vars, host_vars,
                   docker_shape, probe, unit_vars, last>>

\* handle_connection, lines 177-180: try_join! of the two copies returns
\* when both have reached EOF or as soon as one of them fails.
half_eof(id, dir) ==
    /\ conns[id].st = "open"
    /\ conns[id][dir] = "copy"
    /\ LET c == [conns[id] EXCEPT ![dir] = "eof"] IN
       conns' = [conns EXCEPT ![id] =
                    IF c.c2s = "eof" /\ c.s2c = "eof" THEN [c EXCEPT !.st = "closed"] ELSE c]
    /\ UNCHANGED <<proxy_pc, snap_config, snap_project, reload, acc, nconn,
                   disk_vars, host_vars, docker_shape, probe, unit_vars, last>>

half_error(id, dir) ==
    /\ conns[id].st = "open"
    /\ conns[id][dir] = "copy"
    /\ conns' = [conns EXCEPT ![id].st = "closed", ![id][dir] = "err"]
    /\ UNCHANGED <<proxy_pc, snap_config, snap_project, reload, acc, nconn,
                   disk_vars, host_vars, docker_shape, probe, unit_vars, last>>

\* ------------------------------------------------------- specifications
Init ==
    /\ config_file = [projects |-> <<>>, default_project |-> None]
    /\ metadata = [x \in ProjNames |-> NoProject]
    /\ img = [x \in ProjNames |-> FALSE]
    /\ loops = [x \in ProjNames |-> 0]
    /\ orphans = [x \in ProjNames |-> 0]
    /\ mounted = [x \in ProjNames |-> FALSE]
    /\ mdir = [x \in ProjNames |-> FALSE]
    /\ fs = [x \in ProjNames |-> EmptyFs]
    /\ ctr = [k \in Keys |-> NoContainer]
    /\ docker_shape \in DockerShapes
    /\ probe = NoProbe
    /\ UnitIdle
    /\ last = [cmd |-> "none", arg |-> None, res |-> "Ok", allrun |-> FALSE]
    /\ proxy_pc = "off"
    /\ snap_config = [projects |-> <<>>, default_project |-> None]
    /\ snap_project = NoProject
    /\ reload = "idle"
    /\ acc = NoAccept
    /\ conns = [i \in 1..MaxConns |-> NoConn]
    /\ nconn = 0

\* The inputs of the verbs.  Spec provisions one project; the second name
\* is the project that is not there.
InitNames == {"p"}
CreateNames == BranchNames
BadKeys == {NoKey, <<"p", "p">>, <<"p", "b">>}
\* resume and restart are explored without injected faults.
ResumeFail == {"none"}
ResumeBad == {NoKey}

NextCli ==
    \/ \E name \in InitNames, fp \in MountFail, bad \in BadKeys, da \in DetachAll :
           Commands_Init(name, fp, bad, da)
    \/ \E name \in CreateNames, fp \in SnapFail, bad \in BadKeys :
           Commands_Create(name, fp, bad)
    \/ \E name \in ProjNames : Commands_SetDefault(name)
    \/ \E id \in BranchNames : Commands_Delete(id)
    \/ \E name \in ProjNames, bad \in BadKeys, da \in DetachAll :
           Commands_DeleteProject(name, bad, da)
    \/ \E name \in BranchNames : Commands_Use(name)
    \/ \E bad \in BadKeys, da \in DetachAll : Commands_Stop(bad, da)
    \/ \E fpP \in InitNames, fp \in ResumeFail, bad \in ResumeBad :
           Commands_Resume(fpP, fp, bad)
    \/ \E fpP \in InitNames, fp \in ResumeFail, bad \in ResumeBad, da \in DetachAll :
           Commands_Restart(fpP, fp, bad, da)

Next == NextCli

Spec == Init /\ [][Next]_vars

\* The verbs that attach, mount, unmount and detach, over both project
\* names: `init` and `delete-project` name their project, `stop` and
\* `resume` walk every listed project.
NextProjects ==
    \/ \E name \in ProjNames, da \in DetachAll : Commands_Init(name, "none", NoKey, da)
    \/ \E name \in ProjNames, da \in DetachAll : Commands_DeleteProject(name, NoKey, da)
    \/ \E da \in DetachAll : Commands_Stop(NoKey, da)
    \/ Commands_Resume("p", "none", NoKey)

SpecProjects == Init /\ [][NextProjects]_vars

\* The proxy is started on a provisioned installation: project p with
\* branch b, both containers running, main active (the state Spec reaches
\* by `init p`, `create b`).
Provisioned ==
    /\ config_file = [projects |-> <<"p">>, default_project |-> "p"]
    /\ metadata = [x \in ProjNames |->
                      IF x = "p"
                      THEN [name |-> "p", port |-> port_min, active_branch |-> None,
                            branches |-> <<[name |-> "b", port |-> port_min + 1]>>]
                      ELSE NoProject]
    /\ img = [x \in ProjNames |-> x = "p"]
    /\ loops = [x \in ProjNames |-> IF x = "p" THEN 1 ELSE 0]
    /\ orphans = [x \in ProjNames |-> 0]
    /\ mounted = [x \in ProjNames |-> x = "p"]
    /\ mdir = [x \in ProjNames |-> x = "p"]
    /\ fs = [x \in ProjNames |->
                IF x = "p" THEN [vols |-> {"main", "b"}, nested |-> {}, dirs |-> {"p"}]
                ELSE EmptyFs]
    /\ ctr = [k \in Keys |->
                 IF k = <<"p", "p">> THEN [st |-> "running", port |-> port_min]
                 ELSE IF k = <<"p", "b">> THEN [st |-> "running", port |-> port_min + 1]
                 ELSE NoContainer]
    /\ last = [cmd |-> "create", arg |-> "b", res |-> "Ok", allrun |-> FALSE]

InitProxy ==
    /\ Provisioned
    /\ docker_shape \in DockerShapes
    /\ probe = NoProbe
    /\ UnitIdle
    /\ proxy_pc = "off"
    /\ snap_config = [projects |-> <<>>, default_project |-> None]
    /\ snap_project = NoProject
    /\ reload = "idle"
    /\ acc = NoAccept
    /\ conns = [i \in 1..MaxConns |-> NoConn]
    /\ nconn = 0

NextProxy ==
    \/ \E name \in BranchNames : Commands_Use(name)
    \/ \E name \in InitNames, da \in DetachAll : Commands_DeleteProject(name, NoKey, da)
    \/ Commands_Start
    \/ \E rd \in ReadFail : sync_config(rd)
    \/ accept_read
    \/ accept_resolve
    \/ \E id \in 1..MaxConns, dir \in {"c2s", "s2c"} : half_eof(id, dir)
    \/ \E id \in 1..MaxConns, dir \in {"c2s", "s2c"} : half_error(id, dir)

SpecProxy == InitProxy /\ [][NextProxy]_vars

\* Config::get_valid_port on its own: any window around the configured one
\* (empty windows included) against any set of published ports.
ProbePorts == (port_min - 1)..(port_max + 1)
ProbeKeys == {<<"p", "p">>, <<"p", "b">>, <<"q", "q">>}

InitPorts ==
    /\ config_file = [projects |-> <<>>, default_project |-> None]
    /\ metadata = [x \in ProjNames |-> NoProject]
    /\ img = [x \in ProjNames |-> FALSE]
    /\ loops = [x \in ProjNames |-> 0]
    /\ orphans = [x \in ProjNames |-> 0]
    /\ mounted = [x \in ProjNames |-> FALSE]
    /\ mdir = [x \in ProjNames |-> FALSE]
    /\ fs = [x \in ProjNames |-> EmptyFs]
    /\ ctr \in {c \in [Keys -> {NoContainer} \cup
                                 [st : {"running"}, port : ProbePorts]] :
                   /\ \A k \in Keys \ ProbeKeys : c[k] = NoContainer
                   /\ \A k, m \in ProbeKeys :
                          (k # m /\ c[k] # NoContainer) => c[k] # c[m]}
    /\ docker_shape = "err"
    /\ last = [cmd |-> "none", arg |-> None, res |-> "Ok", allrun |-> FALSE]
    /\ proxy_pc = "off"
    /\ snap_config = [projects |-> <<>>, default_project |-> None]
    /\ snap_project = NoProject
    /\ reload = "idle"
    /\ acc = NoAccept
    /\ conns = [i \in 1..MaxConns |-> NoConn]
    /\ nconn = 0
    /\ probe = NoProbe
    /\ UnitIdle

\* One call of get_valid_port on a config with the given port_range.
probe_port(port_range) ==
    /\ probe' = [done |-> TRUE, port_range |-> port_range,
                 port |-> get_valid_port_in(ctr, port_range)]
    /\ UNCHANGED <<disk_vars, host_vars, docker_shape, last, proxy_vars, unit_vars>>

NextPorts == \E port_range \in ProbePorts \X ProbePorts : probe_port(port_range)

SpecPorts == InitPorts /\ [][NextPorts]_vars

\* The proxy under the scheduling the runtime gives it: the reload task
\* wakes every two seconds and finds readable documents again and again,
\* and the accept loop, once it has read the active branch, goes on to
\* resolve the port whenever it can.
SpecProxyFair ==
    /\ InitProxy
    /\ [][NextProxy]_vars
    /\ WF_vars(sync_config("none"))
    /\ WF_vars(accept_resolve)

\* The proxy started on a metadata.json that was not written by these
\* verbs (edited by hand or by another tool): project p names b as its
\* active branch and lists no branch.  serde accepts the document.
Dangling ==
    /\ config_file = [projects |-> <<"p">>, default_project |-> "p"]
    /\ metadata = [x \in ProjNames |->
                      IF x = "p"
                      THEN [name |-> "p", port |-> port_min, active_branch |-> "b",
                            branches |-> <<>>]
                      ELSE NoProject]
    /\ img = [x \in ProjNames |-> x = "p"]
    /\ loops = [x \in ProjNames |-> IF x = "p" THEN 1 ELSE 0]
    /\ orphans = [x \in ProjNames |-> 0]
    /\ mounted = [x \in ProjNames |-> x = "p"]
    /\ mdir = [x \in ProjNames |-> x = "p"]
    /\ fs = [x \in ProjNames |->
                IF x = "p" THEN [vols |-> {"main"}, nested |-> {}, dirs |-> {"p"}]
                ELSE EmptyFs]
    /\ ctr = [k \in Keys |->
                 IF k = <<"p", "p">> THEN [st |-> "running", port |-> port_min]
                 ELSE NoContainer]
    /\ last = [cmd |-> "init", arg |-> "p", res |-> "Ok", allrun |-> FALSE]

InitDangling ==
    /\ Dangling
    /\ docker_shape \in DockerShapes
    /\ probe = NoProbe
    /\ UnitIdle
    /\ proxy_pc = "off"
    /\ snap_config = [projects |-> <<>>, default_project |-> None]
    /\ snap_project = NoProject
    /\ reload = "idle"
    /\ acc = NoAccept
    /\ conns = [i \in 1..MaxConns |-> NoConn]
    /\ nconn = 0

SpecProxyDangling == InitDangling /\ [][NextProxy]_vars


\* Two invocations of `create` side by side on an installation that
\* `init p` has left: project p, no branch, the main container running.
\* Each invocation is a process of its own; what one does between two
\* calls of the other is whatever the steps below allow.
Initialised ==
    /\ config_file = [projects |-> <<"p">>, default_project |-> "p"]
    /\ metadata = [x \in ProjNames |->
                      IF x = "p"
                      THEN [name |-> "p", port |-> port_min, active_branch |-> None,
                            branches |-> <<>>]
                      ELSE NoProject]
    /\ img = [x \in ProjNames |-> x = "p"]
    /\ loops = [x \in ProjNames |-> IF x = "p" THEN 1 ELSE 0]
    /\ orphans = [x \in ProjNames |-> 0]
    /\ mounted = [x \in ProjNames |-> x = "p"]
    /\ mdir = [x \in ProjNames |-> x = "p"]
    /\ fs = [x \in ProjNames |->
                IF x = "p" THEN [vols |-> {"main"}, nested |-> {}, dirs |-> {"p"}]
                ELSE EmptyFs]
    /\ ctr = [k \in Keys |->
                 IF k = <<"p", "p">> THEN [st |-> "running", port |-> port_min]
                 ELSE NoContainer]
    /\ last = [cmd |-> "init", arg |-> "p", res |-> "Ok", allrun |-> FALSE]

InitRace ==
    /\ Initialised
    /\ docker_shape \in DockerShapes
    /\ probe = NoProbe
    /\ procs = [i \in Procs |-> NoProc]
    /\ cfgio = NoCfgIo
    /\ copy = NoCopy
    /\ tree = NoTree
    /\ fmap = NoFmap
    /\ acct = NoAcct
    /\ proxy_pc = "off"
    /\ snap_config = [projects |-> <<>>, default_project |-> None]
    /\ snap_project = NoProject
    /\ reload = "idle"
    /\ acc = NoAccept
    /\ conns = [i \in 1..MaxConns |-> NoConn]
    /\ nconn = 0

\* What a step of invocation i leaves behind.
RaceStep(i, p, w, d) ==
    /\ procs' = [procs EXCEPT ![i] = p]
    /\ config_file' = d.cfg
    /\ metadata' = d.meta
    /\ img' = w.img
    /\ loops' = w.loops
    /\ orphans' = w.orphans
    /\ mounted' = w.mounted
    /\ mdir' = w.mdir
    /\ fs' = w.fs
    /\ ctr' = w.ctr
    /\ UNCHANGED <<docker_shape, probe, last, proxy_vars, cfgio, copy, tree,
                   fmap, acct>>

\* The invocation ends: with an error value, or in a panic.
race_end(i, res, why, w) ==
    RaceStep(i, [procs[i] EXCEPT !.pc = "failed", !.res = res, !.why = why], w, Disk)

\* main() loads the config and the active project, and Commands::Create
\* checks the name against what was loaded.
race_load(i, name) ==
    /\ procs[i].pc = "idle"
    /\ IF name \in Range(config_file.projects)
       THEN race_end(i, "ProjectAlreadyExists", "check", Host)
       ELSE IF active_project # NoProject /\ name \in BranchNamesOf(active_project)
       THEN race_end(i, "BranchAlreadyExists", "check", Host)
       ELSE IF active_project = NoProject
       THEN race_end(i, "panic", "check", Host)
       ELSE RaceStep(i, [procs[i] EXCEPT !.pc = "checked", !.name = name,
                                         !.project = active_project.name],
                     Host, Disk)

\* btrfs_operator.create_snapshot(&args.name).unwrap()
race_snapshot(i, fp) ==
    /\ procs[i].pc = "checked"
    /\ LET s == create_snapshot(Host, procs[i].project, procs[i].name, fp) IN
       IF s.ok THEN RaceStep(i, [procs[i] EXCEPT !.pc = "snapshotted"], s.w, Disk)
       ELSE race_end(i, "panic", "snapshot", s.w)

\* self.state.config.get_valid_port().unwrap()
race_port(i) ==
    /\ procs[i].pc = "snapshotted"
    /\ LET port == get_valid_port(ctr) IN
       IF port # NoPort
       THEN RaceStep(i, [procs[i] EXCEPT !.pc = "ported", !.port = port], Host, Disk)
       ELSE race_end(i, "panic", "port", Host)

\* self.create_postgres(Some(name), valid_port, ..).await
race_run(i, bad) ==
    /\ procs[i].pc = "ported"
    /\ LET c == create_database(Host, procs[i].project, procs[i].name,
                                procs[i].port, bad) IN
       IF c.res = "panic" THEN race_end(i, "panic", "docker", c.w)
       ELSE RaceStep(i, [procs[i] EXCEPT !.pc = "ran"], c.w, Disk)

\* Config::create_branch, first half: metadata.json is read and parsed.
race_read(i) ==
    /\ procs[i].pc = "ran"
    /\ RaceStep(i, [procs[i] EXCEPT !.pc = "read",
                                    !.doc = metadata[procs[i].project]],
                Host, Disk)

\* Config::create_branch, second half: the branch is pushed to the document
\* that was read and save_project_changes writes it.
race_write(i) ==
    /\ procs[i].pc = "read"
    /\ LET doc == [procs[i].doc EXCEPT !.branches =
                       Append(@, [name |-> procs[i].name, port |-> procs[i].port])]
       IN  RaceStep(i, [procs[i] EXCEPT !.pc = "done", !.res = "Ok"], Host,
                    [Disk EXCEPT !.meta[procs[i].project] = doc])

\* An invocation of `use name`: main() loads the active project,
\* Commands::Use checks the name against it, and Config::set_active_branch
\* reads and parses metadata.json.
race_use_read(i, name) ==
    /\ procs[i].pc = "idle"
    /\ IF active_project = NoProject
       THEN race_end(i, "DefaultProjectNotFound", "check", Host)
       ELSE IF name \notin BranchNamesOf(active_project) /\ name # "main"
       THEN race_end(i, "BranchNotFound", "check", Host)
       ELSE RaceStep(i, [procs[i] EXCEPT !.pc = "use_read", !.name = name,
                                         !.project = active_project.name,
                                         !.doc = metadata[active_project.name]],
                     Host, Disk)

\* Config::set_active_branch, second half: the active branch is set in the
\* document that was read and save_project_changes writes it.
race_use_write(i) ==
    /\ procs[i].pc = "use_read"
    /\ LET r == set_active_branch([Disk EXCEPT !.meta[procs[i].project] = procs[i].doc],
                                  procs[i].project, procs[i].name)
       IN  IF r.ok
           THEN RaceStep(i, [procs[i] EXCEPT !.pc = "used", !.res = "Ok"], Host, r.d)
           ELSE race_end(i, "panic", "use", Host)

RaceBad == {NoKey, <<"p", "b">>}

NextRace ==
    \/ \E i \in Procs, name \in CreateNames : race_load(i, name)
    \/ \E i \in Procs, fp \in SnapFail : race_snapshot(i, fp)
    \/ \E i \in Procs : race_port(i)
    \/ \E i \in Procs, bad \in RaceBad : race_run(i, bad)
    \/ \E i \in Procs : race_read(i)
    \/ \E i \in Procs : race_write(i)
    \/ \E i \in Procs, name \in BranchNames : race_use_read(i, name)
    \/ \E i \in Procs : race_use_write(i)

SpecRace == InitRace /\ [][NextRace]_vars


\* ------------------------------------------------- the config document
\* The texts a DBRANCH_* variable is given here (None: not set).
EnvPort == {None, "9100", "junk"}
Envs ==
    {e \in [approach : {None, "EXISTING_DISK", "other"}, api_port : EnvPort,
            proxy_port : EnvPort, port_start : EnvPort, port_end : EnvPort,
            mount_point : {None, "/env"}, default_project : {None, "q"}] :
        Cardinality({k \in DOMAIN e : e[k] # None}) <= MaxEnvSet}

\* The documents dbranch.config.json holds here.
FileDocs ==
    [api_port : {NoPort, 9000}, proxy_port : {NoPort, 6000},
     approach : {None, "NEW_DISK", "EXISTING_DISK"},
     port_min : {NoPort, 7100}, port_max : {NoPort, 7200},
     mount_point : {None, "/file"}, default_project : {None, "p"},
     projects : {<<"p", "q">>}]

\* std::env::var(..).ok().and_then(|v| v.parse::<u16>().ok()) on the
\* texts of EnvPort: NoPort when the variable is unset or does not parse.
env_u16(v) == IF v = "9100" THEN 9100 ELSE NoPort

\* impl Deserialize / Serialize for Approach.
deserialize_approach(t) == IF t = "NEW_DISK" THEN "NewDisk" ELSE "ExistingDisk"
serialize_approach(a) == IF a = "NewDisk" THEN "NEW_DISK" ELSE "EXISTING_DISK"

\* Config::from_env(path, c) under the environment e.
from_env(e, c) ==
    [approach |->
         IF c.approach # None THEN deserialize_approach(c.approach)
         ELSE IF e.approach = None THEN "NewDisk"
         ELSE IF e.approach = "EXISTING_DISK" THEN "ExistingDisk"
         ELSE "NewDisk",
     api_port |->
         IF env_u16(e.api_port) # NoPort THEN env_u16(e.api_port)
         ELSE IF c.api_port # NoPort THEN c.api_port ELSE 8080,
     proxy_port |->
         IF env_u16(e.proxy_port) # NoPort THEN env_u16(e.proxy_port)
         ELSE IF c.proxy_port # NoPort THEN c.proxy_port ELSE 5432,
     port_range |->
         <<IF env_u16(e.port_start) # NoPort THEN env_u16(e.port_start)
           ELSE IF c.port_min # NoPort THEN c.port_min ELSE 7000,
           IF env_u16(e.port_end) # NoPort THEN env_u16(e.port_end)
           ELSE IF c.port_max # NoPort THEN c.port_max ELSE 7999>>,
     mount_point |->
         IF e.mount_point # None THEN e.mount_point
         ELSE IF c.mount_point # None THEN c.mount_point ELSE "/mnt/dbranch",
     projects |-> c.projects,
     default_project |->
         IF e.default_project # None THEN e.default_project ELSE c.default_project]

\* The FileConfigInfo that save_config serialises for the Config c.
save_config(c) ==
    [api_port |-> c.api_port, proxy_port |-> c.proxy_port,
     approach |-> serialize_approach(c.approach),
     port_min |-> c.port_range[1], port_max |-> c.port_range[2],
     mount_point |-> c.mount_point, default_project |-> c.default_project,
     projects |-> c.projects]

\* No project, no proxy: the installation the parts below are exercised on.
Fresh ==
    /\ config_file = [projects |-> <<>>, default_project |-> None]
    /\ metadata = [x \in ProjNames |-> NoProject]
    /\ img = [x \in ProjNames |-> FALSE]
    /\ loops = [x \in ProjNames |-> 0]
    /\ orphans = [x \in ProjNames |-> 0]
    /\ mounted = [x \in ProjNames |-> FALSE]
    /\ mdir = [x \in ProjNames |-> FALSE]
    /\ fs = [x \in ProjNames |-> EmptyFs]
    /\ ctr = [k \in Keys |-> NoContainer]
    /\ docker_shape = "err"
    /\ probe = NoProbe
    /\ last = [cmd |-> "none", arg |-> None, res |-> "Ok", allrun |-> FALSE]
    /\ proxy_pc = "off"
    /\ snap_config = [projects |-> <<>>, default_project |-> None]
    /\ snap_project = NoProject
    /\ reload = "idle"
    /\ acc = NoAccept
    /\ conns = [i \in 1..MaxConns |-> NoConn]
    /\ nconn = 0

InitConfig ==
    /\ Fresh
    /\ procs = [i \in Procs |-> NoProc]
    /\ copy = NoCopy
    /\ tree = NoTree
    /\ fmap = NoFmap
    /\ acct = NoAcct
    /\ \E e \in Envs, x \in BOOLEAN, f \in FileDocs :
           cfgio = [pc |-> "start", env |-> e, exists |-> x,
                    file |-> IF x THEN f ELSE EmptyDoc,
                    read |-> EmptyDoc, config |-> EmptyDoc, first |-> EmptyDoc]

CfgStep(c) ==
    /\ cfgio' = c
    /\ UNCHANGED <<disk_vars, host_vars, docker_shape, probe, last, proxy_vars, procs,
                   copy, tree, fmap, acct>>

\* Config::from_file at the start of a process: a missing file is read as
\* "{}" and created from the loaded Config with an empty project list.
from_file ==
    /\ cfgio.pc \in {"start", "saved"}
    /\ LET json == IF cfgio.exists THEN cfgio.file ELSE EmptyDoc
           c == from_env(cfgio.env, json)
       IN  CfgStep([cfgio EXCEPT
               !.pc = IF cfgio.pc = "start" THEN "loaded" ELSE "reloaded",
               !.read = json,
               !.config = c,
               !.exists = TRUE,
               !.file = IF cfgio.exists THEN cfgio.file
                        ELSE [save_config(c) EXCEPT !.projects = <<>>]])

\* Config::set_default_project on the loaded Config.
cfg_set_default_project(project) ==
    /\ cfgio.pc = "loaded"
    /\ project \in Range(cfgio.config.projects)
    /\ LET c == [cfgio.config EXCEPT !.default_project = project] IN
       CfgStep([cfgio EXCEPT !.pc = "saved", !.config = c,
                             !.file = save_config(c), !.first = save_config(c)])

\* Config::save_config of the Config as it was loaded.
cfg_save_config ==
    /\ cfgio.pc \in {"loaded", "reloaded"}
    /\ CfgStep([cfgio EXCEPT
           !.pc = IF cfgio.pc = "loaded" THEN "saved" ELSE "saved2",
           !.file = save_config(cfgio.config),
           !.first = IF cfgio.pc = "loaded" THEN save_config(cfgio.config)
                     ELSE cfgio.first])

NextConfig ==
    \/ from_file
    \/ \E project \in ProjNames : cfg_set_default_project(project)
    \/ cfg_save_config

SpecConfig == InitConfig /\ [][NextConfig]_vars


\* ------------------------------------------------------ the reflink copy
\* A file is the sequence of its blocks: the data of the block, where it
\* lies on the disk, and whether the filesystem shares it with a file.
Bytes == {0, 1}
RECURSIVE SeqsUpTo(_, _)
SeqsUpTo(S, n) ==
    IF n = 0 THEN {<<>>}
    ELSE SeqsUpTo(S, n - 1) \cup
         {Append(q, x) : q \in {t \in SeqsUpTo(S, n - 1) : Len(t) = n - 1}, x \in S}
\* The file that holds the given data, written and never copied.
FileOf(data) ==
    [i \in 1..Len(data) |-> [data |-> data[i], physical |-> i, shared |-> FALSE]]

\* What the kernel may answer to copy_file_range(src, 0, dest, 0, len, 0):
\* -1, or the number of bytes it copied, which is at most len and at most
\* what one call transfers.
Replies(len) == {-1} \cup (IF len = 0 THEN {0} ELSE 1..len)

\* CopyRefOperator::copy_ref on src and a freshly created dest, the kernel
\* answering ret: on a CoW filesystem the blocks are shared, elsewhere
\* their data is written to new blocks.
copy_ref(cow, src, ret) ==
    IF ret = -1 THEN [res |-> "Err", src |-> src, dest |-> <<>>]
    ELSE [res |-> "Ok",
          src |-> [i \in 1..Len(src) |->
                      IF cow /\ i <= ret THEN [src[i] EXCEPT !.shared = TRUE] ELSE src[i]],
          dest |-> [i \in 1..ret |->
                      IF cow THEN [src[i] EXCEPT !.shared = TRUE]
                      ELSE [data |-> src[i].data, physical |-> MaxBlocks + i,
                            shared |-> FALSE]]]

\* The extent map of a file as the FIEMAP ioctl reports it, one extent to
\* a block: (fe_logical, fe_physical, fe_length, SHARED in fe_flags).
fiemap(f) ==
    [i \in 1..Len(f) |->
        [fe_logical |-> i - 1, fe_physical |-> f[i].physical, fe_length |-> 1,
         shared |-> f[i].shared]]

InitCopy ==
    /\ Fresh
    /\ procs = [i \in Procs |-> NoProc]
    /\ cfgio = NoCfgIo
    /\ tree = NoTree
    /\ fmap = NoFmap
    /\ acct = NoAcct
    /\ \E cow \in BOOLEAN, data \in SeqsUpTo(Bytes, MaxBlocks) :
           copy = [pc |-> "start", cow |-> cow, src |-> FileOf(data),
                   dest |-> <<>>, res |-> None]

\* One call of copy_ref(&src, &dest).
call_copy_ref(ret) ==
    /\ copy.pc = "start"
    /\ LET r == copy_ref(copy.cow, copy.src, ret) IN
       copy' = [copy EXCEPT !.pc = "done", !.src = r.src, !.dest = r.dest,
                            !.res = r.res]
    /\ UNCHANGED <<disk_vars, host_vars, docker_shape, probe, last, proxy_vars,
                   procs, cfgio, tree, fmap, acct>>

NextCopy == \E ret \in Replies(Len(copy.src)) : call_copy_ref(ret)

SpecCopy == InitCopy /\ [][NextCopy]_vars

\* -------------------------------------------------- the tree snapshotter
\* The source trees: an entry is a directory or a regular file, and lies
\* in a directory.
Trees ==
    {t \in [TreePaths -> {Absent, [kind |-> "dir", file |-> <<>>]} \cup
                         {[kind |-> "file", file |-> FileOf(data)] :
                              data \in {<<>>, <<1>>, <<1, 0>>}}] :
        \A p \in TreePaths :
            (t[p].kind # "none" /\ Len(p) > 1) => t[SubSeq(p, 1, Len(p) - 1)].kind = "dir"}

\* fs::read_dir(dir): the entries of dir, in one of the orders the
\* directory may list them.
ReadDirOrders ==
    {<<<<"d">>, <<"f">>, <<"d", "e">>, <<"d", "g">>, <<"d", "e", "h">>>>,
     <<<<"f">>, <<"d">>, <<"d", "g">>, <<"d", "e">>, <<"d", "e", "h">>>>}
read_dir(t, dir, order) ==
    SelectSeq(order, LAMBDA p : /\ t[p].kind # "none"
                                /\ Len(p) = Len(dir) + 1
                                /\ SubSeq(p, 1, Len(dir)) = dir)

\* snapshot(src, dst), the loop over the entries of one directory: a
\* directory is created and entered, a file is created and filled by
\* copy_ref (the kernel answering rets[p]); the first error ends it.
RECURSIVE snapshot(_, _, _, _, _)
snapshot(t, dst, entries, rets, order) ==
    IF entries = <<>> THEN [ok |-> TRUE, dst |-> dst]
    ELSE
    LET p == Head(entries) IN
    IF t[p].kind = "dir"
    THEN LET r == snapshot(t, [dst EXCEPT ![p] = [kind |-> "dir", file |-> <<>>]],
                           read_dir(t, p, order), rets, order)
         IN  IF r.ok THEN snapshot(t, r.dst, Tail(entries), rets, order) ELSE r
    ELSE LET c == copy_ref(TRUE, t[p].file, rets[p]) IN
         IF c.res = "Ok"
         THEN snapshot(t, [dst EXCEPT ![p] = [kind |-> "file", file |-> c.dest]],
                       Tail(entries), rets, order)
         ELSE [ok |-> FALSE, dst |-> [dst EXCEPT ![p] = [kind |-> "file", file |-> <<>>]]]

InitTree ==
    /\ Fresh
    /\ procs = [i \in Procs |-> NoProc]
    /\ cfgio = NoCfgIo
    /\ copy = NoCopy
    /\ fmap = NoFmap
    /\ acct = NoAcct
    /\ \E t \in Trees : tree = [pc |-> "start", src |-> t, dst |-> EmptyTree, res |-> None]

\* One call of snapshot(src, dst) with an empty dst.
call_snapshot(rets, order) ==
    /\ tree.pc = "start"
    /\ \A p \in TreePaths :
           rets[p] \in (IF tree.src[p].kind = "file"
                        THEN Replies(Len(tree.src[p].file)) ELSE {0})
    /\ LET r == snapshot(tree.src, EmptyTree, read_dir(tree.src, <<>>, order),
                         rets, order) IN
       tree' = [tree EXCEPT !.pc = "done", !.dst = r.dst,
                            !.res = IF r.ok THEN "Ok" ELSE "Err"]
    /\ UNCHANGED <<disk_vars, host_vars, docker_shape, probe, last, proxy_vars,
                   procs, cfgio, copy, fmap, acct>>

NextTree ==
    \E rets \in [TreePaths -> -1..MaxBlocks], order \in ReadDirOrders :
        call_snapshot(rets, order)

SpecTree == InitTree /\ [][NextTree]_vars


\* ------------------------------------------------ the extent map reader
RECURSIVE SumSeq(_, _)
SumSeq(q, n) == IF n = 0 THEN 0 ELSE q[n] + SumSeq(q, n - 1)

\* The extent map of a file whose extents have the given lengths and
\* flags, laid out from offset 0; the kernel flags the last one LAST.
Layout(lens, flags) ==
    [i \in 1..Len(lens) |->
        [fe_logical |-> SumSeq(lens, i - 1), fe_length |-> lens[i],
         fe_flags |-> flags[i] \cup (IF i = Len(lens) THEN {"LAST"} ELSE {})]]

\* ioctl(fd, FS_IOC_FIEMAP, &fr) with fm_extent_count = ExtentCount: the
\* first extents that overlap the requested range; EINVAL for a range of
\* length 0.
fiemap_ioctl(f, fm_start, fm_length) ==
    IF f.fail \/ fm_length = 0 THEN [ret |-> -1, fm_extents |-> <<>>]
    ELSE LET hit == SelectSeq(f.extents,
                        LAMBDA e : /\ e.fe_logical + e.fe_length > fm_start
                                   /\ e.fe_logical < fm_start + fm_length)
         IN  [ret |-> 0,
              fm_extents |-> SubSeq(hit, 1, IF Len(hit) < ExtentCount THEN Len(hit)
                                            ELSE ExtentCount)]

\* check_file, the loop: `file_size - current_offset` on u64 panics in a
\* build with overflow checks and wraps in one without.
RECURSIVE check_file_loop(_, _, _, _, _)
check_file_loop(f, build, current_offset, all_extents, requests) ==
    IF current_offset > f.size /\ build = "debug"
    THEN [res |-> "panic", all_extents |-> all_extents, requests |-> requests]
    ELSE
    LET fm_length == (f.size - current_offset) % (2 ^ OffsetBits)
        rq == Append(requests, [fm_start |-> current_offset, fm_length |-> fm_length])
        r == fiemap_ioctl(f, current_offset, fm_length)
        n == Len(r.fm_extents)
        lasts == {i \in 1..n : "LAST" \in r.fm_extents[i].fe_flags}
        k == IF lasts = {} THEN n ELSE CHOOSE i \in lasts : \A j \in lasts : i <= j
        all == all_extents \o SubSeq(r.fm_extents, 1, k)
    IN  IF r.ret = -1
        THEN [res |-> "Err", all_extents |-> all_extents, requests |-> rq]
        ELSE IF n = 0 \/ lasts # {} \/ n < ExtentCount
        THEN [res |-> "Ok", all_extents |-> all, requests |-> rq]
        ELSE check_file_loop(f, build,
                             r.fm_extents[n].fe_logical + r.fm_extents[n].fe_length,
                             all, rq)

\* check_file(f).
check_file(f, build) ==
    IF f.size = 0 THEN [res |-> "Ok", all_extents |-> <<>>, requests |-> <<>>]
    ELSE check_file_loop(f, build, 0, <<>>, <<>>)

Builds == {"debug", "release"}

InitFiemap ==
    /\ Fresh
    /\ procs = [i \in Procs |-> NoProc]
    /\ cfgio = NoCfgIo
    /\ copy = NoCopy
    /\ tree = NoTree
    /\ acct = NoAcct
    /\ \E lens \in SeqsUpTo({1, 2}, MaxExtents), size \in 0..MaxSize,
          fail \in BOOLEAN, build \in Builds :
           fmap = [NoFmap EXCEPT
                      !.pc = "start", !.build = build,
                      !.f = [size |-> size, fail |-> fail,
                             extents |-> Layout(lens, [i \in 1..Len(lens) |-> {}])]]

\* One call of check_file(f).
call_check_file ==
    /\ fmap.pc = "start"
    /\ LET r == check_file(fmap.f, fmap.build) IN
       fmap' = [fmap EXCEPT !.pc = "done", !.res = r.res,
                            !.all_extents = r.all_extents, !.requests = r.requests]
    /\ UNCHANGED <<disk_vars, host_vars, docker_shape, probe, last, proxy_vars,
                   procs, cfgio, copy, tree, acct>>

NextFiemap == call_check_file

SpecFiemap == InitFiemap /\ [][NextFiemap]_vars

\* ------------------------------------------------- the folder accounting
\* The files the accounting meets: empty, one plain extent, a shared and
\* an encoded extent, three extents (more than one call returns), and a
\* file whose extents go past the length metadata() gave.
FileShapes ==
    {NoFile,
     [size |-> 1, fail |-> FALSE, extents |-> Layout(<<1>>, <<{}>>)],
     [size |-> 2, fail |-> FALSE,
      extents |-> Layout(<<1, 1>>, <<{"SHARED"}, {"ENCODED"}>>)],
     [size |-> 3, fail |-> FALSE,
      extents |-> Layout(<<1, 1, 1>>, <<{"SHARED"}, {}, {"SHARED", "ENCODED"}>>)],
     [size |-> 2, fail |-> FALSE,
      extents |-> Layout(<<1, 2, 1>>, <<{"SHARED"}, {"SHARED"}, {"SHARED"}>>)]}

AcctTrees ==
    {t \in [TreePaths -> {NoAcct.t[<<"d">>], [kind |-> "dir", f |-> NoFile]} \cup
                         {[kind |-> "file", f |-> f] : f \in FileShapes}] :
        \A p \in TreePaths :
            (t[p].kind # "none" /\ Len(p) > 1) => t[SubSeq(p, 1, Len(p) - 1)].kind = "dir"}

\* .map(|f| f.extent.fe_length).sum(): the lengths of all the extents.
all_bytes(all_extents) ==
    SumSeq([i \in 1..Len(all_extents) |-> all_extents[i].fe_length], Len(all_extents))

\* .filter(|f| f.flags.contains(&FiemapFlags::Shared)).map(|f| f.extent.fe_length).sum()
shared_bytes(all_extents) ==
    SumSeq([i \in 1..Len(all_extents) |->
               IF "SHARED" \in all_extents[i].fe_flags THEN all_extents[i].fe_length
               ELSE 0], Len(all_extents))

NewFolderInfo == [res |-> "Ok", logical_size |-> 0, shared_size |-> 0, files |-> <<>>]

\* get_folder_size(path), the loop over the entries of one directory: a
\* directory is entered and its totals and records added, a file is read
\* by check_file (the ioctl of `bad` fails) and its result unwrapped.
RECURSIVE get_folder_size(_, _, _, _, _, _)
get_folder_size(t, entries, build, bad, order, fi) ==
    IF entries = <<>> THEN fi
    ELSE
    LET p == Head(entries) IN
    IF t[p].kind = "dir"
    THEN LET subfolder == get_folder_size(t, read_dir(t, p, order), build, bad,
                                          order, NewFolderInfo)
         IN  IF subfolder.res = "panic" THEN [fi EXCEPT !.res = "panic"]
             ELSE get_folder_size(t, Tail(entries), build, bad, order,
                      [fi EXCEPT !.logical_size = @ + subfolder.logical_size,
                                 !.shared_size = @ + subfolder.shared_size,
                                 !.files = @ \o subfolder.files])
    ELSE LET file_info == check_file([t[p].f EXCEPT !.fail = (p = bad)], build) IN
         IF file_info.res # "Ok" THEN [fi EXCEPT !.res = "panic"]
         ELSE get_folder_size(t, Tail(entries), build, bad, order,
                  [fi EXCEPT
                      !.logical_size = @ + t[p].f.size,
                      !.shared_size = @ + shared_bytes(file_info.all_extents),
                      !.files = Append(@,
                          [real_size |-> t[p].f.size,
                           shared_size |-> shared_bytes(file_info.all_extents),
                           is_compressed |->
                               \E i \in 1..Len(file_info.all_extents) :
                                   "ENCODED" \in file_info.all_extents[i].fe_flags,
                           name |-> p[Len(p)]])])

InitAcct ==
    /\ Fresh
    /\ procs = [i \in Procs |-> NoProc]
    /\ cfgio = NoCfgIo
    /\ copy = NoCopy
    /\ tree = NoTree
    /\ fmap = NoFmap
    /\ \E t \in AcctTrees, build \in Builds :
           acct = [NoAcct EXCEPT !.pc = "start", !.t = t, !.build = build]

\* One call of get_folder_size on the root of the tree.
call_get_folder_size(bad, order) ==
    /\ acct.pc = "start"
    /\ LET fi == get_folder_size(acct.t, read_dir(acct.t, <<>>, order), acct.build,
                                 bad, order, NewFolderInfo) IN
       acct' = [acct EXCEPT !.pc = "done", !.bad = bad, !.res = fi.res,
                            !.logical_size = fi.logical_size,
                            !.shared_size = fi.shared_size, !.files = fi.files]
    /\ UNCHANGED <<disk_vars, host_vars, docker_shape, probe, last, proxy_vars,
                   procs, cfgio, copy, tree, fmap>>

NextAcct ==
    \E bad \in TreePaths \cup {<<>>}, order \in ReadDirOrders :
        call_get_folder_size(bad, order)

SpecAcct == InitAcct /\ [][NextAcct]_vars

\* ----------------------------------------------------------------- claims
\* A step of `delete-project name`, whatever the environment does.
DeleteProjectStep(name) ==
    \E bad \in BadKeys, da \in DetachAll : Commands_DeleteProject(name, bad, da)

\* C1: a connection keeps the backend port that was selected when it was
\* accepted, whatever verb or reload happens afterwards, and a connection
\* accepted when the proxy's snapshot names branch b as active is given
\* the port recorded for b (the project's own port when none is active).
C1_ConnectionsKeepTarget ==
    [][\A id \in 1..MaxConns :
          /\ conns[id].st # "free" => conns'[id].target = conns[id].target
          /\ (conns[id].st = "free" /\ conns'[id].st # "free") =>
                 IF snap_project.active_branch = None
                 THEN conns'[id].target = snap_project.port
                 ELSE \E i \in DOMAIN snap_project.branches :
                          /\ snap_project.branches[i].name = snap_project.active_branch
                          /\ snap_project.branches[i].port = conns'[id].target]_vars

\* C1, its case: `use b` ran while connection 1 was open on main's port;
\* connection 1 is still open on that port and connection 2, accepted after
\* the reload, is open on b's different port.
C1_Witness ==
    /\ last.cmd = "use" /\ last.arg = "b" /\ last.res = "Ok"
    /\ snap_project.active_branch = "b"
    /\ conns[1].st = "open" /\ conns[1].target = metadata["p"].port
    /\ conns[2].st = "open" /\ conns[2].target = port_min + 1
    /\ conns[1].target # conns[2].target

\* C2: whenever a project's filesystem is mounted, the main subvolume and
\* the subvolume of every branch recorded in its metadata are present.
C2_BranchSubvolumesPresent ==
    \A x \in ProjNames :
        (metadata[x] # NoProject /\ mounted[x]) =>
            /\ "main" \in fs[x].vols
            /\ \A n \in BranchNamesOf(metadata[x]) : n \in fs[x].vols

\* C3: a `resume` that follows a `stop` of projects whose containers were
\* all running leaves every container running on its recorded port.
C3_StopResumeKeepsRunning ==
    [][(/\ last.cmd = "stop" /\ last.allrun
        /\ \E fpP \in InitNames, fp \in ResumeFail, bad \in ResumeBad :
               Commands_Resume(fpP, fp, bad))
       => AllRunning(ctr', get_projects([cfg |-> config_file', meta |-> metadata']))]_vars

\* C4: the recorded ports of a project (its main port and the ports of its
\* branches) are pairwise distinct.
C4_PortsDistinct ==
    \A x \in ProjNames :
        metadata[x] # NoProject =>
            LET pr == metadata[x] IN
            /\ \A i \in DOMAIN pr.branches : pr.branches[i].port # pr.port
            /\ \A i, j \in DOMAIN pr.branches :
                   i # j => pr.branches[i].port # pr.branches[j].port

\* C5: `delete b` on an existing non-main branch of the default project
\* removes b's container and subvolume and drops b from the metadata.
C5_DeleteRemovesBranch ==
    [][\A id \in BranchNames :
          (/\ Commands_Delete(id)
           /\ id # "main"
           /\ active_project # NoProject
           /\ id \in BranchNamesOf(active_project))
          => LET pn == active_project.name IN
             /\ id \notin BranchNamesOf(metadata'[pn])
             /\ ctr'[container_name(pn, id)].st = "absent"
             /\ id \notin fs'[pn].vols]_vars

\* C6: a `delete-project p` that follows a successful `delete-project p`
\* returns success and changes neither the documents nor the host.
C6_DeleteProjectIdempotent ==
    [][\A name \in ProjNames :
          (/\ last.cmd = "delete-project" /\ last.arg = name /\ last.res = "Ok"
           /\ DeleteProjectStep(name))
          => /\ last'.res = "Ok"
             /\ UNCHANGED <<disk_vars, host_vars>>]_vars

\* C7: a `delete-project` of the project whose `init` or `create` just
\* failed succeeds and leaves no loop device, mount or image of it behind.
C7_DeleteProjectCleansPartialState ==
    [][\A name \in ProjNames :
          (/\ last.res = "panic"
           /\ \/ last.cmd = "init" /\ last.arg = name
              \/ last.cmd = "create" /\ config_file.default_project = name
           /\ \E da \in DetachAll : Commands_DeleteProject(name, NoKey, da))
          => /\ last'.res = "Ok"
             /\ loops'[name] = 0 /\ orphans'[name] = 0
             /\ ~mounted'[name]
             /\ ~img'[name]]_vars

\* C8: `delete-project` of a listed project returns success and drops the
\* project's metadata, whatever is missing and whichever substep fails.
C8_DeleteProjectBestEffort ==
    [][\A name \in ProjNames :
          (name \in Range(config_file.projects) /\ DeleteProjectStep(name))
          => /\ last'.res = "Ok"
             /\ name \notin Range(config_file'.projects)
             /\ metadata'[name] = NoProject]_vars

\* C9: after a successful `delete-project p` no container of p is left, p
\* is unmounted, no loop device is attached to p's image, the image is
\* gone, and p is neither listed nor the default project.
C9_DeleteProjectRemovesEverything ==
    [][\A name \in ProjNames :
          (DeleteProjectStep(name) /\ last'.res = "Ok")
          => /\ \A n \in Names : ctr'[container_name(name, n)].st = "absent"
             /\ ~mounted'[name]
             /\ loops'[name] = 0 /\ orphans'[name] = 0
             /\ ~img'[name]
             /\ name \notin Range(config_file'.projects)
             /\ config_file'.default_project # name]_vars

\* C10: the main branch of a project is the project itself; no branch that
\* is named main is ever recorded in the branch list.
C10_NoSecondMain ==
    \A x \in ProjNames :
        metadata[x] # NoProject => "main" \notin BranchNamesOf(metadata[x])

\* C11: `use x` with a default project that records no branch x, x not
\* `main`, ends with BranchNotFound and changes neither the persisted
\* documents (active branch included) nor the host.
C11_UseUnknownBranchRejected ==
    [][\A name \in BranchNames :
          (/\ last'.cmd = "use" /\ last'.arg = name
           /\ Commands_Use(name)
           /\ active_project # NoProject
           /\ name # "main"
           /\ \A i \in DOMAIN active_project.branches :
                  active_project.branches[i].name # name)
          => /\ last'.res = "BranchNotFound"
             /\ UNCHANGED <<disk_vars, host_vars>>]_vars

\* C11, its case: `use b` was just refused on a project that is the
\* default, has its metadata and records no branch b.
C11_Witness ==
    /\ last = [cmd |-> "use", arg |-> "b", res |-> "BranchNotFound", allrun |-> FALSE]
    /\ config_file.default_project = "p"
    /\ metadata["p"] # NoProject
    /\ metadata["p"].branches = <<>>

\* C12: a `use b` that ends Ok leaves the default project's active branch
\* equal to b, or absent when b is `main`, and changes nothing else: the
\* project's name, port and branch list, every other project's metadata,
\* the config document and the host stay as they were.
C12_UseSetsOnlyActiveBranch ==
    [][\A name \in BranchNames :
          (/\ last'.cmd = "use" /\ last'.arg = name /\ last'.res = "Ok"
           /\ Commands_Use(name))
          => LET pn == config_file.default_project IN
             /\ pn \in ProjNames
             /\ metadata'[pn].active_branch = (IF name = "main" THEN None ELSE name)
             /\ metadata'[pn].name = metadata[pn].name
             /\ metadata'[pn].port = metadata[pn].port
             /\ metadata'[pn].branches = metadata[pn].branches
             /\ \A x \in ProjNames \ {pn} : metadata'[x] = metadata[x]
             /\ config_file' = config_file
             /\ UNCHANGED host_vars]_vars

\* C12, its cases: `use b` has made b the active branch of p, b still
\* recorded on its port; and `use main` has cleared an active branch.
C12_Witness ==
    /\ last = [cmd |-> "use", arg |-> "b", res |-> "Ok", allrun |-> FALSE]
    /\ metadata["p"] # NoProject
    /\ metadata["p"].active_branch = "b"
    /\ "b" \in BranchNamesOf(metadata["p"])

\* C13: once the proxy runs for good and the persisted documents have
\* stopped changing, then from any later moment on the proxy's config and
\* project snapshot eventually equal the persisted config and the default
\* project's metadata.
C13_SnapshotConverges ==
    (<>[](proxy_pc = "running") /\ <>[][UNCHANGED disk_vars]_vars)
        => []<>(snap_config = config_file /\ snap_project = active_project)

\* C14: the project snapshot is replaced as a whole and never while a
\* connection is being handled: a new snapshot is the complete persisted
\* metadata of the default project (or no project at all), the snapshot
\* does not change between the read of the active branch and the choice of
\* the port, and the port chosen is the one that snapshot records for the
\* branch that was read.
C14_SnapshotAtomic ==
    [][/\ acc.busy => snap_project' = snap_project
       /\ snap_project' # snap_project =>
              \/ snap_project' = NoProject
              \/ /\ config_file.default_project \in ProjNames
                 /\ snap_project' = metadata[config_file.default_project]
       /\ \A id \in 1..MaxConns :
              (conns[id].st = "free" /\ conns'[id].st # "free") =>
                  /\ acc.busy
                  /\ IF acc.branch = None
                     THEN conns'[id].target = snap_project.port
                     ELSE \E i \in DOMAIN snap_project.branches :
                              /\ snap_project.branches[i].name = acc.branch
                              /\ snap_project.branches[i].port = conns'[id].target]_vars

\* C14, its case: a connection is being handled with branch b read from
\* the snapshot while `use main` has already changed the persisted
\* document; the snapshot still is the version the reader captured.
C14_Witness ==
    /\ acc.busy /\ acc.branch = "b"
    /\ snap_project # NoProject /\ snap_project.active_branch = "b"
    /\ metadata["p"] # NoProject /\ metadata["p"].active_branch = None
    /\ last.cmd = "use" /\ last.arg = "main" /\ last.res = "Ok"

\* C15: a reload that finds the config or the default project's metadata
\* unreadable leaves the config and project snapshot as they were and the
\* proxy running.
C15_FailedReloadKeepsSnapshot ==
    [][(sync_config("config") \/ sync_config("metadata"))
       => /\ UNCHANGED <<snap_config, snap_project>>
          /\ proxy_pc' = "running"]_vars

C17_EitherHalfEndsForwarder ==
    [][\A id \in 1..MaxConns, dir \in {"c2s", "s2c"} :
          (half_eof(id, dir) \/ half_error(id, dir)) => conns'[id].st = "closed"]_vars

\* C18: get_valid_port returns the lowest port of its window that no one
\* holds on 127.0.0.1, and no port exactly when every port of the window is
\* held, an empty window included.
C18_LowestBindablePort ==
    probe.done =>
        LET lo == probe.port_range[1]
            hi == probe.port_range[2]
            held == {ctr[k].port : k \in {m \in Keys : ctr[m].st = "running"}}
        IN  /\ probe.port # NoPort =>
                   /\ lo <= probe.port /\ probe.port <= hi
                   /\ probe.port \notin held
                   /\ \A q \in lo..(probe.port - 1) : q \in held
            /\ probe.port = NoPort <=> \A q \in lo..hi : q \in held

\* C18, its case: the first port of the window is held and the call
\* returned the next one, inside the window.
C18_Witness ==
    /\ probe.done
    /\ probe.port = probe.port_range[1] + 1
    /\ probe.port <= probe.port_range[2]
    /\ \E k \in Keys : ctr[k] = [st |-> "running", port |-> probe.port_range[1]]

\* C19: with every port of the window held, an `init` of a new project
\* and a `create` of a new branch (default project mounted, snapshot
\* possible) end with NoPortAvailable and leave the documents unchanged.
C19_NoPortAvailableReported ==
    [][/\ \A name \in InitNames :
              (/\ \E fp \in MountFail, bad \in BadKeys, da \in DetachAll :
                      Commands_Init(name, fp, bad, da)
               /\ name \notin Range(config_file.projects)
               /\ \A q \in Ports : ~Bindable(ctr, q))
              => /\ last'.res = "NoPortAvailable"
                 /\ UNCHANGED disk_vars
       /\ \A name \in CreateNames :
              (/\ Commands_Create(name, "none", NoKey)
               /\ name \notin Range(config_file.projects)
               /\ active_project # NoProject
               /\ name \notin BranchNamesOf(active_project)
               /\ mounted[active_project.name]
               /\ "main" \in fs[active_project.name].vols
               /\ \A q \in Ports : ~Bindable(ctr, q))
              => /\ last'.res = "NoPortAvailable"
                 /\ UNCHANGED disk_vars]_vars

\* C20: an `init` that fails leaves the persisted documents unchanged, and
\* an `init` that adds the project to the project list leaves the image
\* present, the filesystem mounted with its main subvolume and the main
\* container running on the recorded port.
C20_InitPersistsLast ==
    [][\A name \in InitNames :
          (/\ last'.cmd = "init" /\ last'.arg = name
           /\ \E fp \in MountFail, bad \in BadKeys, da \in DetachAll :
                  Commands_Init(name, fp, bad, da))
          => /\ last'.res # "Ok" => UNCHANGED disk_vars
             /\ (name \in Range(config_file'.projects) /\
                 name \notin Range(config_file.projects))
                => /\ last'.res = "Ok"
                   /\ metadata'[name] # NoProject
                   /\ img'[name]
                   /\ mounted'[name]
                   /\ "main" \in fs'[name].vols
                   /\ ctr'[container_name(name, name)] =
                          [st |-> "running", port |-> metadata'[name].port]]_vars

\* C20, its cases: an `init p` that panicked after the image was reserved
\* and the loop device attached left no project behind.
C20_Witness ==
    /\ last = [cmd |-> "init", arg |-> "p", res |-> "panic", allrun |-> FALSE]
    /\ img["p"] /\ loops["p"] > 0
    /\ config_file.projects = <<>>
    /\ metadata["p"] = NoProject

\* C21: every verb addresses the container of branch b of project p by
\* the one name p_b, and the container of the main branch is p_main: after
\* a successful `init name` the container name_main is the one running.
C21_MainContainerNamedMain ==
    [][\A name \in InitNames :
          (/\ last'.cmd = "init" /\ last'.arg = name /\ last'.res = "Ok"
           /\ \E fp \in MountFail, bad \in BadKeys, da \in DetachAll :
                  Commands_Init(name, fp, bad, da))
          => ctr'[container_name(name, "main")].st = "running"]_vars

\* C22: on a mounted, listed project the directory bind-mounted into the
\* container of every branch, main included, lies in a subvolume of its
\* own, and that of the main container lies in the subvolume `main`.
C22_DataDirInsideOwnSubvolume ==
    \A x \in ProjNames :
        (x \in Range(config_file.projects) /\ mounted[x] /\ metadata[x] # NoProject)
        => /\ data_dir(x, db_name(None, x)) = "main"
           /\ data_dir(x, db_name(None, x)) \in fs[x].vols
           /\ \A i \in DOMAIN metadata[x].branches :
                  data_dir(x, db_name(metadata[x].branches[i].name, x)) \in fs[x].vols

\* C23: an `init` in which loop attach, format, mount or the creation of
\* the main subvolume fails, and a `create` in which the snapshot fails,
\* do not end with Ok and leave config.json and metadata.json as they were.
C23_FailedProvisioningKeepsDocuments ==
    [][/\ \A name \in InitNames :
            (/\ last'.cmd = "init" /\ last'.arg = name
             /\ \E fp \in MountFail \ {"none"}, bad \in BadKeys, da \in DetachAll :
                    Commands_Init(name, fp, bad, da))
            => (last'.res # "Ok" /\ UNCHANGED disk_vars)
       /\ \A name \in CreateNames :
            (/\ last'.cmd = "create" /\ last'.arg = name
             /\ \E fp \in SnapFail \ {"none"}, bad \in BadKeys :
                    Commands_Create(name, fp, bad))
            => (last'.res # "Ok" /\ UNCHANGED disk_vars)]_vars

\* A `create b` on a mounted project with a free port has panicked and
\* left no trace of b on the filesystem: its snapshot failed.
C23_Witness ==
    /\ last = [cmd |-> "create", arg |-> "b", res |-> "panic", allrun |-> FALSE]
    /\ active_project # NoProject
    /\ active_project.name = "p"
    /\ subvolume_exists(Host, "p", "main")
    /\ "b" \notin (fs["p"].vols \cup fs["p"].dirs \cup fs["p"].nested)
    /\ get_valid_port(ctr) # NoPort
    /\ "b" \notin BranchNamesOf(active_project)

\* C24: when `create id` has failed at the start of the container (the
\* snapshot is there, no container is, id is not recorded), `delete id`
\* succeeds and removes the snapshot.
C24_FailedCreateRecoverable ==
    [][\A id \in BranchNames \ {"main"} :
          (/\ last'.cmd = "delete" /\ last'.arg = id
           /\ last = [cmd |-> "create", arg |-> id, res |-> "panic", allrun |-> FALSE]
           /\ active_project # NoProject
           /\ id \in fs[active_project.name].vols
           /\ id \notin BranchNamesOf(active_project)
           /\ ctr[container_name(active_project.name, id)].st = "absent"
           /\ Commands_Delete(id))
          => (last'.res = "Ok" /\ id \notin fs'[active_project.name].vols)]_vars

\* The number of entries named n in a branch list.
RECURSIVE CountBranch(_, _)
CountBranch(branches, n) ==
    IF branches = <<>> THEN 0
    ELSE (IF Head(branches).name = n THEN 1 ELSE 0) + CountBranch(Tail(branches), n)

C26_EnvOverFileOverDefault ==
    cfgio.pc = "loaded" =>
        LET e == cfgio.env
            f == cfgio.read
            c == cfgio.config
            Port(ev, fv, dv) ==
                IF env_u16(ev) # NoPort THEN env_u16(ev) ELSE IF fv # NoPort THEN fv ELSE dv
            Text(ev, fv, dv) == IF ev # None THEN ev ELSE IF fv # None THEN fv ELSE dv
        IN  /\ c.api_port = Port(e.api_port, f.api_port, 8080)
            /\ c.proxy_port = Port(e.proxy_port, f.proxy_port, 5432)
            /\ c.port_range[1] = Port(e.port_start, f.port_min, 7000)
            /\ c.port_range[2] = Port(e.port_end, f.port_max, 7999)
            /\ c.mount_point = Text(e.mount_point, f.mount_point, "/mnt/dbranch")
            /\ c.default_project = Text(e.default_project, f.default_project, None)
            /\ c.approach =
                   (IF e.approach = "EXISTING_DISK" THEN "ExistingDisk"
                    ELSE IF e.approach # None THEN "NewDisk"
                    ELSE IF f.approach # None THEN deserialize_approach(f.approach)
                    ELSE "NewDisk")

\* C27: the document written by a save, loaded and saved again, is the
\* document of the first save.
C27_SaveLoadSaveSame ==
    cfgio.pc = "saved2" => cfgio.file = cfgio.first

\* C28: when copy_ref has reported success, the destination has the
\* length of the source and the same data in every block.
C28_CopyIsIdentical ==
    (copy.pc = "done" /\ copy.res = "Ok") =>
        /\ Len(copy.dest) = Len(copy.src)
        /\ \A i \in 1..Len(copy.src) :
               i <= Len(copy.dest) /\ copy.dest[i].data = copy.src[i].data

\* C29: when copy_ref has reported success on a CoW filesystem, the extent
\* maps of the two files have the same length and agree extent by extent
\* on logical offset, physical offset and length, and every extent of
\* both carries SHARED.
C29_ExtentsSharedPairwise ==
    (copy.pc = "done" /\ copy.res = "Ok" /\ copy.cow) =>
        LET a == fiemap(copy.src)
            b == fiemap(copy.dest)
        IN  /\ Len(a) = Len(b)
            /\ \A i \in 1..Len(a) :
                   /\ i <= Len(b)
                   /\ a[i].fe_logical = b[i].fe_logical
                   /\ a[i].fe_physical = b[i].fe_physical
                   /\ a[i].fe_length = b[i].fe_length
                   /\ a[i].shared /\ b[i].shared

\* C30: when snapshot has succeeded on a source tree and an empty
\* destination, every directory of the source is a directory of the
\* destination at the same path, and every regular file of the source is
\* a file of the destination at the same path with the same bytes,
\* whatever the depth.
C30_TreeIsIdentical ==
    (tree.pc = "done" /\ tree.res = "Ok") =>
        \A p \in TreePaths :
            /\ tree.src[p].kind = "dir" => tree.dst[p].kind = "dir"
            /\ tree.src[p].kind = "file" =>
                   /\ tree.dst[p].kind = "file"
                   /\ Len(tree.dst[p].file) = Len(tree.src[p].file)
                   /\ \A i \in 1..Len(tree.src[p].file) :
                          /\ i <= Len(tree.dst[p].file)
                          /\ tree.dst[p].file[i].data = tree.src[p].file[i].data

C32_UnmountOnlyWhenStopped ==
    [][\A x \in ProjNames :
          (/\ last'.cmd \in {"stop", "restart", "delete-project", "init"}
           /\ mounted[x] /\ ~mounted'[x])
          => \A n \in Names : ctr'[container_name(x, n)].st # "running"]_vars

\* C33: check_file ends for every file with a list; a file of length 0
\* gives the empty list without a request; every request after the first
\* starts where the last extent received ends; and the list is, in order,
\* what the requests returned, cut after the first extent flagged LAST.
C33_ReaderReturnsKernelOrder ==
    fmap.pc = "done" =>
        /\ fmap.res \in {"Ok", "Err"}
        /\ fmap.f.size = 0 => (fmap.requests = <<>> /\ fmap.all_extents = <<>>)
        /\ \A i \in 1..Len(fmap.all_extents) :
               /\ fmap.all_extents[i] = fmap.f.extents[i]
               /\ i < Len(fmap.all_extents) => "LAST" \notin fmap.all_extents[i].fe_flags
        /\ \A i \in 2..Len(fmap.requests) :
               \E j \in 1..Len(fmap.all_extents) :
                   fmap.requests[i].fm_start =
                       fmap.all_extents[j].fe_logical + fmap.all_extents[j].fe_length

\* C40: no request of check_file starts past the file size, and the
\* subtraction file_size - current_offset never goes below zero.
C40_RequestStartWithinFile ==
    fmap.pc = "done" =>
        /\ fmap.res # "panic"
        /\ \A i \in 1..Len(fmap.requests) : fmap.requests[i].fm_start <= fmap.f.size

\* The regular files of the tree under account, and sums over them.
AcctFiles == {p \in TreePaths : acct.t[p].kind = "file"}
RECURSIVE SumOver(_, _)
SumOver(S, g) ==
    IF S = {} THEN 0
    ELSE LET x == CHOOSE y \in S : TRUE IN g[x] + SumOver(S \ {x}, g)
SharedOf(f) ==
    SumOver({i \in 1..Len(f.extents) : "SHARED" \in f.extents[i].fe_flags},
            [i \in 1..Len(f.extents) |-> f.extents[i].fe_length])
\* Every extent of every file begins within the length metadata() gave.
AcctWithinSize ==
    \A p \in AcctFiles :
        \A i \in 1..Len(acct.t[p].f.extents) :
            acct.t[p].f.extents[i].fe_logical < acct.t[p].f.size
AcctRecord(p) == {i \in 1..Len(acct.files) : acct.files[i].name = p[Len(p)]}

\* C34: when the extent query of one file fails, get_folder_size still
\* ends with totals: that file has no shared bytes in them and every other
\* file is counted.
C34_FailedQuerySkipsFile ==
    (/\ acct.pc = "done"
     /\ acct.bad \in AcctFiles
     /\ acct.t[acct.bad].f.size > 0
     /\ AcctWithinSize)
    => /\ acct.res = "Ok"
       /\ acct.shared_size =
              SumOver(AcctFiles \ {acct.bad},
                      [p \in TreePaths |-> SharedOf(acct.t[p].f)])
       /\ \A p \in AcctFiles \ {acct.bad} : AcctRecord(p) # {}

\* C35: the totals get_folder_size returns are the sum of the sizes of
\* the regular files at every depth and the sum of the lengths of their
\* SHARED extents, both equal the sums over the per-file records, there is
\* one record a file, and is_compressed is set exactly for the files with
\* an ENCODED extent.  The sum of the files' SHARED extents is compared
\* for files whose extents all begin within the length metadata() gave.
C35_TotalsAreSums ==
    (acct.pc = "done" /\ acct.res = "Ok") =>
        /\ acct.logical_size = SumOver(AcctFiles, [p \in TreePaths |-> acct.t[p].f.size])
        /\ AcctWithinSize =>
               acct.shared_size =
                   SumOver(AcctFiles, [p \in TreePaths |-> SharedOf(acct.t[p].f)])
        /\ acct.logical_size =
               SumSeq([i \in 1..Len(acct.files) |-> acct.files[i].real_size],
                      Len(acct.files))
        /\ acct.shared_size =
               SumSeq([i \in 1..Len(acct.files) |-> acct.files[i].shared_size],
                      Len(acct.files))
        /\ Len(acct.files) = Cardinality(AcctFiles)
        /\ \A p \in AcctFiles :
               \E i \in AcctRecord(p) :
                   acct.files[i].is_compressed <=>
                       \E j \in 1..Len(acct.t[p].f.extents) :
                           "ENCODED" \in acct.t[p].f.extents[j].fe_flags

\* A nested tree with a file of three extents two levels down, shared and
\* encoded extents, accounted without a failure.
C35_Witness ==
    /\ acct.pc = "done"
    /\ acct.res = "Ok"
    /\ AcctWithinSize
    /\ acct.t[<<"d", "e", "h">>].kind = "file"
    /\ Len(acct.t[<<"d", "e", "h">>].f.extents) = 3
    /\ acct.t[<<"f">>].kind = "file"
    /\ acct.shared_size > 0
    /\ \E i \in 1..Len(acct.files) : acct.files[i].is_compressed
    /\ \E i \in 1..Len(acct.files) : ~acct.files[i].is_compressed

C37_NoLostMetadataUpdate ==
    (/\ docker_shape = "err"
     /\ \A i \in Procs : procs[i].pc \in {"done", "used"})
    => \A i \in Procs :
           procs[i].pc = "done" => procs[i].name \in BranchNamesOf(metadata["p"])

\* C38: once the proxy has started, the project snapshot that accept
\* reads is never absent, and an accept leaves the proxy running.
C38_SnapshotNeverAbsent ==
    [][(proxy_pc = "running" => snap_project' # NoProject)
       /\ (accept_read => proxy_pc' = "running")]_vars

\* C39: in every state that sequential commands reach, the active branch
\* recorded for a project is absent or names a branch of its list.
C39_ActiveBranchListed ==
    \A x \in ProjNames :
        metadata[x] # NoProject =>
            \/ metadata[x].active_branch = None
            \/ metadata[x].active_branch \in BranchNamesOf(metadata[x])

\* `use b` has recorded b, a branch of the list, as the active branch.
C39_Witness ==
    /\ last.cmd = "use" /\ last.arg = "b" /\ last.res = "Ok"
    /\ metadata["p"] # NoProject
    /\ metadata["p"].active_branch = "b"
    /\ "b" \in BranchNamesOf(metadata["p"])

====
